---------------------------- MODULE Spec2Model ----------------------------
(***************************************************************************)
(* A model of the YCLIENTS API wrapper (src/yclients_wrapper.py): the      *)
(* transport/retry loop of YClientsAPI._request, the operations built on   *)
(* it, phone normalisation and phone matching.                             *)
(*                                                                         *)
(* Python values are modelled as tagged records (JNull, JBool, JNum, JStr, *)
(* JChars, JList, JDict); a Python str whose characters matter (a phone)   *)
(* is a JChars value holding the sequence of its one-character strings.    *)
(* A dict decoded from JSON is a JDict over its field names; a dict the    *)
(* code builds with values as keys is a JKeyed over those values.          *)
(* Durations are integers in milliseconds.                                 *)
(***************************************************************************)
EXTENDS Integers, Sequences, FiniteSets, TLC

VARIABLES
    api,      \* the YClientsAPI instance: the fields set by __init__
    pc,       \* position of the calling thread
    op,       \* the wrapper operation in progress ("none" when idle)
    args,     \* the arguments of the operation in progress
    req,      \* locals of the running _request invocation
    trace,    \* HTTP attempts and sleeps of the operation, in order
    calls,    \* the _request invocations made by the operation, in order
    resp,     \* the response to the most recent HTTP attempt
    locals,   \* locals of the operation outside _request
    result,   \* what the operation returned or raised
    history,  \* the calls completed before the current one, as their callers saw them
    session,  \* the instance's requests.Session: "none" before construction, "open", "closed"
    syncer,   \* the YClientsFullDataSyncer: the fields its sync functions read
    sync,     \* the frame of the sync function in progress, or what it returned
    salons,   \* the 'salons' collection: its documents, in order of insertion
    peer,     \* a second instance and the state of its caller, while the first one runs
    prompts,  \* the 'prompts' collection: its documents, in order of insertion
    run       \* the frame of run_full_sync, or what it returned

vars == <<api, pc, op, args, req, trace, calls, resp, locals, result, history,
          session, syncer, sync, salons, peer, prompts, run>>

\* what the syncer adds to the wrapper's state
syncing == <<session, syncer, sync, salons, prompts, run>>

\* what no step of a wrapper call touches
outside == <<history, session, syncer, sync, salons, peer, prompts, run>>

\* what no step of a fetch_and_save function touches
aside == <<history, peer, prompts, run>>

-----------------------------------------------------------------------------
(* Bounds of the model *)

MaxRetries == 3
MaxLen == 4
MaxCands == 2
MaxRecords == 2
MaxItems == 2

-----------------------------------------------------------------------------
(* Python / JSON values *)

EmptyD == [k \in {} |-> 0]

JNull == [t |-> "null"]
JBool(b) == [t |-> "bool", b |-> b]
JNum(n) == [t |-> "num", n |-> n]
JStr(s) == [t |-> "str", s |-> s]
JChars(c) == [t |-> "str", c |-> c]
JList(l) == [t |-> "list", l |-> l]
JDict(d) == [t |-> "dict", d |-> d]

\* isinstance(v, dict) / isinstance(v, list)
IsDict(v) == v.t = "dict"
IsList(v) == v.t = "list"

\* Python truth value of v
Truthy(v) ==
    CASE v.t = "null" -> FALSE
      [] v.t = "bool" -> v.b
      [] v.t = "num" -> v.n # 0
      [] v.t = "str" -> IF "s" \in DOMAIN v THEN v.s # "" ELSE v.c # <<>>
      [] v.t = "list" -> v.l # <<>>
      [] v.t = "dict" -> DOMAIN v.d # {}

\* k in v, for a dict v
HasKey(v, k) == k \in DOMAIN v.d

\* v.get(k, default), for a dict v
Get(v, k, default) == IF k \in DOMAIN v.d THEN v.d[k] ELSE default

\* str(n) for an integer n
Str(n) == ToString(n)

\* the characters of a str, one-character strings in order
Chars(v) == IF "s" \in DOMAIN v THEN [i \in 1..Len(v.s) |-> SubSeq(v.s, i, i)] ELSE v.c

\* key in s, for a str s: key is a substring of s
IsSubstring(key, chars) ==
    \E i \in 0..(Len(chars) - Len(key)) :
        \A j \in 1..Len(key) : chars[i + j] = SubSeq(key, j, j)

-----------------------------------------------------------------------------
(* The instance: YClientsAPI.__init__ *)

BASE_URL == "https://api.yclients.com/api/v1"

PartnerTokens == {"p1", "p2"}
UserTokens == {JNull, JStr(""), JStr("u1")}
BackoffFactors == {500, 1500}

DefaultHeaders(partner_token) ==
    [Accept |-> "application/vnd.yclients.v2+json",
     ContentType |-> "application/json",
     Authorization |-> "Bearer " \o partner_token]

NewAPI(company_id, partner_token, user_token, timeout, max_retries, backoff_factor) ==
    [company_id |-> company_id,
     partner_token |-> partner_token,
     user_token |-> user_token,
     timeout |-> timeout,
     max_retries |-> max_retries,
     backoff_factor |-> backoff_factor,
     default_headers |-> DefaultHeaders(partner_token)]

Instances ==
    { NewAPI(1, p, u, 10000, m, b) :
        p \in PartnerTokens, u \in UserTokens, m \in 0..MaxRetries, b \in BackoffFactors }

-----------------------------------------------------------------------------
(* No operation in progress *)

NoReq == [active |-> FALSE]
NoResp == [kind |-> "none"]
NoResult == [kind |-> "none"]
NoArgs == [none |-> TRUE]
NoLocals == [none |-> TRUE]

\* no second instance
NoPeer == [none |-> TRUE]

\* an instance constructed by its user, no sync function involved
NoSync == [at |-> "idle"]
NoRun == [at |-> "idle"]
NoSyncer ==
    /\ session = "open"
    /\ syncer = [none |-> TRUE]
    /\ sync = NoSync
    /\ salons = <<>>
    /\ prompts = <<>>
    /\ run = NoRun

Returned(v) == [kind |-> "return", value |-> v]
Raised(k, payload) == [kind |-> k, payload |-> payload]

Idle ==
    /\ pc = "idle"
    /\ op = "none"

-----------------------------------------------------------------------------
(* The remote platform: what one HTTP attempt can come back with *)

OkStatuses == {200, 299}
ErrStatuses == {199, 300, 429, 500}
Texts == {"t1", "t2"}

NoBody == [content |-> "empty"]
InvalidBody == [content |-> "invalid"]
JsonBody(v) == [content |-> "json", json |-> v]

\* session.request raised requests.RequestException
NetworkFailures ==
    { [kind |-> "exception", status |-> 0, text |-> m, body |-> NoBody] :
        m \in {"timed out"} }

\* a response with a non-2xx status: only its status and text are read
ErrorResponses ==
    { [kind |-> "response", status |-> s, text |-> t, body |-> NoBody] :
        s \in ErrStatuses, t \in Texts }

\* a 2xx response carrying one of the bodies B
OkResponses(B) ==
    { [kind |-> "response", status |-> s, text |-> "", body |-> b] :
        s \in OkStatuses, b \in B }

Responses(B) == NetworkFailures \cup ErrorResponses \cup OkResponses(B)

\* decoded bodies of every shape _request tells apart
GenericValues ==
    { JNull, JBool(FALSE), JStr("ok"),
      JList(<<>>), JList(<<JNum(1)>>),
      JDict(EmptyD),
      JDict([data |-> JList(<<JNum(1)>>)]),
      JDict([success |-> JBool(TRUE), data |-> JList(<<>>), meta |-> JList(<<>>)]),
      JDict([success |-> JNum(0), data |-> JList(<<>>)]),
      JDict([success |-> JNull]),
      JDict([success |-> JBool(FALSE)]),
      JDict([success |-> JBool(FALSE), meta |-> JList(<<>>)]),
      JDict([success |-> JBool(FALSE), meta |-> JDict([message |-> JStr("denied")])]) }

GenericBodies == {NoBody, InvalidBody} \cup { JsonBody(v) : v \in GenericValues }

-----------------------------------------------------------------------------
(* YClientsAPI._request *)

\* RequestHeaders with the elevated flag ignored: the user token is layered on
\* whenever the instance has one
RequestHeaders_ignoring_flag(a, use_user_token) ==
    IF Truthy(a.user_token)
    THEN [a.default_headers EXCEPT
            !.Authorization = "Bearer " \o a.partner_token \o ", User " \o a.user_token.s]
    ELSE a.default_headers

\* headers = self._default_headers.copy(), with the user token layered on
RequestHeaders(a, use_user_token) ==
    IF use_user_token /\ Truthy(a.user_token)
    THEN [a.default_headers EXCEPT
            !.Authorization = "Bearer " \o a.partner_token \o ", User " \o a.user_token.s]
    ELSE a.default_headers

\* DefaultHeadersAfter without the copy: headers is self._default_headers itself, and
\* the Authorization written for this request stays in it
DefaultHeadersAfter_uncopied(a, use_user_token) == RequestHeaders(a, use_user_token)

\* self._default_headers once _request has built its headers: headers is a copy
\* (self._default_headers.copy()), so what is written into it is not written here
DefaultHeadersAfter(a, use_user_token) == a.default_headers

\* NewRequest with the retry counter kept on the instance: a call goes on from the
\* count the call before it reached
NewRequest_carrying_retries(a, method, path, params, json, use_user_token) ==
    [active |-> TRUE,
     method |-> method,
     url |-> BASE_URL \o path,
     params |-> params,
     json |-> json,
     use_user_token |-> use_user_token,
     headers |-> RequestHeaders(a, use_user_token),
     retries |-> IF history # <<>> /\ "retries" \in DOMAIN history[1]
                 THEN history[1].retries ELSE 0,
     sleep_for |-> 0]

\* the locals of a fresh _request invocation: url, headers, retries = 0
NewRequest(a, method, path, params, json, use_user_token) ==
    [active |-> TRUE,
     method |-> method,
     url |-> BASE_URL \o path,
     params |-> params,
     json |-> json,
     use_user_token |-> use_user_token,
     headers |-> RequestHeaders(a, use_user_token),
     retries |-> 0,
     sleep_for |-> 0]

\* the record kept of one _request invocation
CallRecord(r) ==
    [method |-> r.method, url |-> r.url, params |-> r.params, json |-> r.json,
     use_user_token |-> r.use_user_token]

\* enter _request from an operation
EnterRequest(method, path, params, json, use_user_token) ==
    LET r == NewRequest(api, method, path, params, json, use_user_token) IN
    /\ api' = [api EXCEPT !.default_headers = DefaultHeadersAfter(api, use_user_token)]
    /\ req' = r
    /\ calls' = Append(calls, CallRecord(r))
    /\ resp' = NoResp
    /\ pc' = "request"

\* the event logged for one session.request call and its answer
RequestEvent(r, a, answer) ==
    [e |-> "request", method |-> r.method, url |-> r.url, params |-> r.params,
     json |-> r.json, auth |-> r.headers.Authorization, timeout |-> a.timeout,
     answer |-> answer.kind, status |-> answer.status]

SleepEvent(d) == [e |-> "sleep", d |-> d]

\* ShouldRetry with the cap off by one: retries <= self.max_retries
ShouldRetry_one_more(answer, retries, max_retries) ==
    answer.status = 429 /\ retries <= max_retries

\* ShouldRetry that also retries server errors
ShouldRetry_on_500(answer, retries, max_retries) ==
    answer.status \in {429, 500} /\ retries < max_retries

\* resp.status_code == 429 and retries < self.max_retries
ShouldRetry(answer, retries, max_retries) ==
    answer.status = 429 /\ retries < max_retries

\* SleepFor with the exponent not shifted: backoff_factor * 2 ** retries
SleepFor_unshifted(backoff_factor, retries) == backoff_factor * (2 ^ retries)

\* sleep_for = self.backoff_factor * (2 ** (retries - 1)), retries already incremented
SleepFor(backoff_factor, retries) == backoff_factor * (2 ^ (retries - 1))

\* 200 <= resp.status_code < 300
IsSuccessStatus(status) == 200 <= status /\ status < 300

\* data = resp.json() if resp.content else {}
DecodeBody(body) == IF body.content = "empty" THEN JDict(EmptyD) ELSE body.json

\* IsPlatformError testing falsiness instead of identity: not data.get("success", True)
IsPlatformError_falsy(data) == IsDict(data) /\ ~Truthy(Get(data, "success", JBool(TRUE)))

\* isinstance(data, dict) and data.get("success") is False
IsPlatformError(data) == IsDict(data) /\ Get(data, "success", JNull) = JBool(FALSE)

\* data.get("meta") or data
PlatformErrorPayload(data) ==
    LET meta == Get(data, "meta", JNull) IN IF Truthy(meta) THEN meta ELSE data

\* what _request returns or raises once an answer is not retried
RequestOutcome(answer) ==
    IF answer.kind = "exception"
    THEN Raised("YClientsAPIError", JStr("Network error: " \o answer.text))
    ELSE IF IsSuccessStatus(answer.status)
    THEN IF answer.body.content = "invalid"
         THEN Raised("JSONDecodeError", JNull)
         ELSE LET data == DecodeBody(answer.body) IN
              IF IsPlatformError(data)
              THEN Raised("YClientsAPIError", PlatformErrorPayload(data))
              ELSE Returned(data)
    ELSE Raised("YClientsAPIError",
                JStr("YClients error " \o Str(answer.status) \o ": " \o answer.text))

\* operations that return self._request(...) as it is
PassThroughOps ==
    { "list_staff", "get_client", "list_company_services", "list_service_categories",
      "search_clients", "find_client", "client_visits" }

\* raise YClientsAPIError(f"Failed to build complete service catalog: {e}")
CatalogFailure(e) ==
    Raised("YClientsAPIError",
           [t |-> "message", prefix |-> "Failed to build complete service catalog: ",
            cause |-> e.payload])

\* operations that catch every exception and raise YClientsAPIError in its place
WrappingOps == { "build_complete_service_catalog" }

\* _request returns or raises: control goes back to the operation that called it
LeaveRequest(outcome) ==
    IF outcome.kind = "return" /\ op \notin PassThroughOps
    THEN /\ pc' = "resume"
         /\ locals' = [locals EXCEPT !.response = outcome.value]
         /\ UNCHANGED result
    ELSE /\ pc' = "done"
         /\ result' = IF op \in WrappingOps /\ outcome.kind # "return"
                       THEN CatalogFailure(outcome)
                       ELSE outcome
         /\ UNCHANGED locals

\* one pass of the while loop: session.request, then retry, return or raise
request_send(B) ==
    /\ pc = "request"
    /\ \E answer \in Responses(B) :
         /\ trace' = Append(trace, RequestEvent(req, api, answer))
         /\ resp' = answer
         /\ IF answer.kind = "response" /\ ShouldRetry(answer, req.retries, api.max_retries)
            THEN /\ req' = [req EXCEPT !.retries = @ + 1,
                                       !.sleep_for = SleepFor(api.backoff_factor, req.retries + 1)]
                 /\ pc' = "sleep"
                 /\ UNCHANGED <<locals, result>>
            ELSE /\ LeaveRequest(RequestOutcome(answer))
                 /\ UNCHANGED req
    /\ UNCHANGED <<api, outside, op, args, calls>>

\* time.sleep(sleep_for); continue
request_sleep ==
    /\ pc = "sleep"
    /\ trace' = Append(trace, SleepEvent(req.sleep_for))
    /\ pc' = "request"
    /\ UNCHANGED <<api, outside, op, args, req, calls, resp, locals, result>>

\* the caller takes the result; the instance is free for its next call
Reset ==
    /\ pc = "done"
    /\ pc' = "idle"
    /\ op' = "none"
    /\ args' = NoArgs
    /\ req' = NoReq
    /\ trace' = <<>>
    /\ calls' = <<>>
    /\ resp' = NoResp
    /\ locals' = NoLocals
    /\ result' = NoResult
    /\ UNCHANGED <<api, outside>>

\* the call as its caller saw it: what was asked, what the platform last answered,
\* what came back
CompletedCall == [op |-> op, args |-> args, answer |-> resp, result |-> result]

\* the caller takes the result and keeps it for comparison with its next call
Remember ==
    /\ pc = "done"
    /\ history' = <<CompletedCall>>
    /\ pc' = "idle"
    /\ op' = "none"
    /\ args' = NoArgs
    /\ req' = NoReq
    /\ trace' = <<>>
    /\ calls' = <<>>
    /\ resp' = NoResp
    /\ locals' = NoLocals
    /\ result' = NoResult
    /\ UNCHANGED <<api, syncing, peer>>

\* a finished call in short: which operation, whether it was elevated, how many
\* retries its _request used, how it ended
FinishedCall ==
    [op |-> op,
     elevated |-> calls # <<>> /\ calls[1].use_user_token,
     retries |-> IF req.active THEN req.retries ELSE 0,
     outcome |-> result.kind]

\* the caller takes the result and goes on to its next call on the same instance
NextCall ==
    /\ pc = "done"
    /\ history' = <<FinishedCall>>
    /\ pc' = "idle"
    /\ op' = "none"
    /\ args' = NoArgs
    /\ req' = NoReq
    /\ trace' = <<>>
    /\ calls' = <<>>
    /\ resp' = NoResp
    /\ locals' = NoLocals
    /\ result' = NoResult
    /\ UNCHANGED <<api, syncing, peer>>

\* an operation raises before it reaches _request
RaiseEarly(kind, message) ==
    /\ pc' = "done"
    /\ result' = Raised(kind, JStr(message))
    /\ UNCHANGED <<api, req, calls, resp>>

-----------------------------------------------------------------------------
(* Operations that hand their request to _request and return what it returns *)

NoParams == JDict(EmptyD)
CompanyPath(a) == Str(a.company_id)

ClientIds == {7, 8}

\* list_staff(): GET /book_staff/{company_id}
list_staff ==
    /\ Idle
    /\ op' = "list_staff"
    /\ args' = NoArgs
    /\ EnterRequest("GET", "/book_staff/" \o CompanyPath(api), NoParams, JNull, FALSE)
    /\ UNCHANGED <<outside, trace, locals, result>>

\* get_client(client_id): GET /client/{company_id}/{client_id}
get_client ==
    /\ Idle
    /\ \E client_id \in ClientIds :
         /\ op' = "get_client"
         /\ args' = [client_id |-> client_id]
         /\ EnterRequest("GET", "/client/" \o CompanyPath(api) \o "/" \o Str(client_id),
                         JNull, JNull, TRUE)
    /\ UNCHANGED <<outside, trace, locals, result>>

\* list_company_services(): GET /company/{company_id}/services
list_company_services ==
    /\ Idle
    /\ op' = "list_company_services"
    /\ args' = NoArgs
    /\ EnterRequest("GET", "/company/" \o CompanyPath(api) \o "/services", JNull, JNull, TRUE)
    /\ UNCHANGED <<outside, trace, locals, result>>

\* params of list_service_categories: include=services when asked for
CategoryParams(include_services) ==
    IF include_services THEN JDict([include |-> JStr("services")]) ELSE NoParams

\* list_service_categories(include_services): GET /company/{company_id}/service_categories
list_service_categories ==
    /\ Idle
    /\ \E include_services \in BOOLEAN :
         /\ op' = "list_service_categories"
         /\ args' = [include_services |-> include_services]
         /\ EnterRequest("GET", "/company/" \o CompanyPath(api) \o "/service_categories",
                         CategoryParams(include_services), JNull, TRUE)
    /\ UNCHANGED <<outside, trace, locals, result>>

-----------------------------------------------------------------------------
(* Phone normalisation: YClientsAPI._normalize_phone *)

\* the characters \d matches: the ASCII digits and every other Unicode decimal
\* digit, of which "U+0663" (ARABIC-INDIC DIGIT THREE) stands for one
DigitChars == {"0", "1", "2", "3", "4", "5", "6", "7", "8", "9", "U+0663"}

IsDigit(c) == c \in DigitChars

\* StripNonDigits with a pattern that spares the plus sign: r'[^\d+]'
RECURSIVE StripNonDigits_keep_plus(_)
StripNonDigits_keep_plus(s) ==
    IF s = <<>> THEN <<>>
    ELSE (IF IsDigit(Head(s)) \/ Head(s) = "+" THEN <<Head(s)>> ELSE <<>>)
         \o StripNonDigits_keep_plus(Tail(s))

\* re.sub(r'[^\d]', '', phone): left to right, every non-digit replaced by ''
RECURSIVE StripNonDigits(_)
StripNonDigits(s) ==
    IF s = <<>> THEN <<>>
    ELSE (IF IsDigit(Head(s)) THEN <<Head(s)>> ELSE <<>>) \o StripNonDigits(Tail(s))

\* normalize_phone without the emptiness check: '' comes back for a phone without digits
normalize_phone_lenient(phone) == Returned(JChars(StripNonDigits(phone)))

\* _normalize_phone(phone), for a str phone: the digits, or ValueError
normalize_phone(phone) ==
    LET clean_phone == StripNonDigits(phone) IN
    IF clean_phone = <<>>
    THEN Raised("ValueError", JStr("Phone number must contain at least one digit"))
    ELSE Returned(JChars(clean_phone))

\* _normalize_phone(v) for any Python value: re.sub rejects a non-str
normalize_value(v) ==
    IF v.t = "str" THEN normalize_phone(v.c)
    ELSE Raised("TypeError", JStr("expected string or bytes-like object"))

-----------------------------------------------------------------------------
(* Client search: search_clients, find_client *)

DefaultFields ==
    JList(<<JStr("id"), JStr("name"), JStr("surname"), JStr("patronymic"), JStr("phone"),
            JStr("email"), JStr("card"), JStr("visits_count"), JStr("spent"),
            JStr("balance"), JStr("discount"), JStr("sex"), JStr("birth_date"),
            JStr("created"), JStr("last_visit_date")>>)

\* the payload of search_clients: filters only when the list is non-empty
SearchPayload(filters, page, page_size) ==
    LET base == [page |-> JNum(page), page_size |-> JNum(page_size),
                 operation |-> JStr("AND"), fields |-> DefaultFields] IN
    IF Truthy(filters)
    THEN JDict([k \in DOMAIN base \cup {"filters"} |->
                  IF k = "filters" THEN filters ELSE base[k]])
    ELSE JDict(base)

SearchPath(a) == "/company/" \o CompanyPath(a) \o "/clients/search"

\* search_clients: POST /company/{company_id}/clients/search
EnterSearch(filters, page, page_size) ==
    EnterRequest("POST", SearchPath(api), JNull, SearchPayload(filters, page, page_size), TRUE)

\* the filters find_client builds from its truthy criteria, in this order
FindFilters(name, phone, email) ==
    JList((IF Truthy(name) THEN <<JDict([name |-> name])>> ELSE <<>>)
          \o (IF Truthy(phone) THEN <<JDict([phone |-> phone])>> ELSE <<>>)
          \o (IF Truthy(email) THEN <<JDict([email |-> email])>> ELSE <<>>))

\* search_clients(filters=...), with the default page, page size and fields
search_clients(F) ==
    /\ Idle
    /\ \E filters \in F :
         /\ op' = "search_clients"
         /\ args' = [filters |-> filters]
         /\ EnterSearch(filters, 1, 25)
    /\ UNCHANGED <<outside, trace, locals, result>>

\* find_client(name=..., phone=..., email=...)
find_client(N, P, E) ==
    /\ Idle
    /\ \E name \in N, phone \in P, email \in E :
         /\ op' = "find_client"
         /\ args' = [name |-> name, phone |-> phone, email |-> email]
         /\ EnterSearch(FindFilters(name, phone, email), 1, 25)
    /\ UNCHANGED <<outside, trace, locals, result>>

-----------------------------------------------------------------------------
(* Visit history: client_visits *)

VisitsPath(a) == "/company/" \o CompanyPath(a) \o "/clients/visits/search"

\* VisitsPayload that never asks for the staff details
VisitsPayload_without_staff(client_id, clean_phone, include_services, include_staff) ==
    LET base == [client_id |-> client_id,
                 client_phone |-> IF ~Truthy(client_id) THEN clean_phone ELSE JNull]
        keys == {"client_id", "client_phone"}
                \cup (IF include_services THEN {"include_services"} ELSE {}) IN
    JDict([k \in keys |-> IF k \in DOMAIN base THEN base[k] ELSE JNum(1)])

\* the payload of client_visits without date filters or cursors
VisitsPayload(client_id, clean_phone, include_services, include_staff) ==
    LET base == [client_id |-> client_id,
                 client_phone |-> IF ~Truthy(client_id) THEN clean_phone ELSE JNull]
        keys == {"client_id", "client_phone"}
                \cup (IF include_services THEN {"include_services"} ELSE {})
                \cup (IF include_staff THEN {"include_staff"} ELSE {}) IN
    JDict([k \in keys |-> IF k \in DOMAIN base THEN base[k] ELSE JNum(1)])

\* client_visits from its first line to its call of _request (or its raise)
EnterClientVisits(phone, client_id, include_services, include_staff) ==
    IF ~(Truthy(phone) \/ Truthy(client_id))
    THEN RaiseEarly("ValueError", "Either phone or client_id must be provided")
    ELSE LET normalized == IF Truthy(phone) /\ ~Truthy(client_id)
                           THEN normalize_value(phone)
                           ELSE Returned(JNull) IN
         IF normalized.kind # "return"
         THEN /\ pc' = "done"
              /\ result' = normalized
              /\ UNCHANGED <<api, req, calls, resp>>
         ELSE /\ EnterRequest("POST", VisitsPath(api), JNull,
                    VisitsPayload(client_id, normalized.value, include_services, include_staff),
                    TRUE)
              /\ UNCHANGED result

\* client_visits(phone=..., client_id=..., include_services=..., include_staff=...)
client_visits(P, C, I) ==
    /\ Idle
    /\ \E phone \in P, client_id \in C, include \in I :
         /\ op' = "client_visits"
         /\ args' = [phone |-> phone, client_id |-> client_id, include |-> include]
         /\ EnterClientVisits(phone, client_id, include.services, include.staff)
    /\ UNCHANGED <<outside, trace, locals>>

-----------------------------------------------------------------------------
(* Phone matching: YClientsAPI._find_client_by_phone *)

\* LastDigits keeping ten digits instead of seven
LastDigits_ten(clean_phone) ==
    IF Len(clean_phone) >= 10
    THEN SubSeq(clean_phone, Len(clean_phone) - 9, Len(clean_phone))
    ELSE clean_phone

\* search_digits = clean_phone[-7:] if len(clean_phone) >= 7 else clean_phone
LastDigits(clean_phone) ==
    IF Len(clean_phone) >= 7
    THEN SubSeq(clean_phone, Len(clean_phone) - 6, Len(clean_phone))
    ELSE clean_phone

\* a.endswith(b)
EndsWith(a, b) ==
    /\ Len(b) <= Len(a)
    /\ SubSeq(a, Len(a) - Len(b) + 1, Len(a)) = b

\* Accepts without the length guard on the suffix rule
Accepts_any_suffix(clean_client_phone, clean_phone) ==
    \/ clean_client_phone = clean_phone
    \/ EndsWith(clean_client_phone, clean_phone)

\* the two tests of the matching loop: exact, or suffix with at least 7 digits
Accepts(clean_client_phone, clean_phone) ==
    \/ clean_client_phone = clean_phone
    \/ EndsWith(clean_client_phone, clean_phone) /\ Len(clean_phone) >= 7

Matches(l) == [kind |-> "matches", matches |-> l]

\* for client in clients['data'], over a list: the accepted candidates in order, or
\* the exception the first offending candidate raises
RECURSIVE MatchCandidates(_, _)
MatchCandidates(cands, clean_phone) ==
    IF cands = <<>> THEN Matches(<<>>)
    ELSE LET client == Head(cands) IN
         IF ~IsDict(client)
         THEN Raised("AttributeError", JStr("object has no attribute 'get'"))
         ELSE LET client_phone == Get(client, "phone", JChars(<<>>))
                  normalized == IF Truthy(client_phone)
                                THEN normalize_value(client_phone)
                                ELSE Returned(JChars(<<>>)) IN
              IF normalized.kind # "return" THEN normalized
              ELSE LET rest == MatchCandidates(Tail(cands), clean_phone) IN
                   IF rest.kind # "matches" THEN rest
                   ELSE Matches((IF Accepts(normalized.value.c, clean_phone)
                                 THEN <<client>> ELSE <<>>) \o rest.matches)

\* the loop over clients['data'], whatever truthy value data is
MatchLoop(data, clean_phone) ==
    CASE data.t = "list" -> MatchCandidates(data.l, clean_phone)
      [] data.t \in {"dict", "str"} ->
            Raised("AttributeError", JStr("'str' object has no attribute 'get'"))
      [] OTHER -> Raised("TypeError", JStr("object is not iterable"))

\* FindOutcome returning the accepted candidate that comes last: exact_matches[-1]
FindOutcome_last(clients, clean_phone) ==
    IF ~IsDict(clients) \/ ~HasKey(clients, "data") \/ ~Truthy(clients.d.data)
    THEN [outcome |-> Returned(JNull), exact_matches |-> <<>>]
    ELSE LET m == MatchLoop(clients.d.data, clean_phone) IN
         IF m.kind # "matches" THEN [outcome |-> m, exact_matches |-> <<>>]
         ELSE IF m.matches = <<>> THEN [outcome |-> Returned(JNull), exact_matches |-> <<>>]
         ELSE [outcome |-> Returned(m.matches[Len(m.matches)]), exact_matches |-> m.matches]

\* _find_client_by_phone after find_client returned clients: what it returns or raises,
\* with the exact_matches it collected
FindOutcome(clients, clean_phone) ==
    IF ~IsDict(clients) \/ ~HasKey(clients, "data") \/ ~Truthy(clients.d.data)
    THEN [outcome |-> Returned(JNull), exact_matches |-> <<>>]
    ELSE LET m == MatchLoop(clients.d.data, clean_phone) IN
         IF m.kind # "matches" THEN [outcome |-> m, exact_matches |-> <<>>]
         ELSE IF m.matches = <<>> THEN [outcome |-> Returned(JNull), exact_matches |-> <<>>]
         ELSE [outcome |-> Returned(m.matches[1]), exact_matches |-> m.matches]

\* _find_client_by_phone from its first line to find_client's call of _request
EnterFindClientByPhone(phone, phase) ==
    LET normalized == normalize_value(phone) IN
    IF normalized.kind # "return"
    THEN /\ pc' = "done"
         /\ result' = normalized
         /\ UNCHANGED <<api, req, calls, resp, locals>>
    ELSE LET clean_phone == normalized.value.c
             search_digits == LastDigits(clean_phone) IN
         /\ locals' = [phase |-> phase, clean_phone |-> clean_phone,
                       search_digits |-> search_digits, response |-> JNull]
         /\ EnterSearch(FindFilters(JNull, JChars(search_digits), JNull), 1, 25)
         /\ UNCHANGED result

\* _find_client_by_phone(phone)
find_client_by_phone(P) ==
    /\ Idle
    /\ \E phone \in P :
         /\ op' = "_find_client_by_phone"
         /\ args' = [phone |-> phone]
         /\ EnterFindClientByPhone(phone, "find")
    /\ UNCHANGED <<outside, trace>>

\* _find_client_by_phone once find_client has returned: match and return
find_match ==
    /\ pc = "resume"
    /\ op = "_find_client_by_phone"
    /\ LET f == FindOutcome(locals.response, locals.clean_phone) IN
         /\ result' = f.outcome
         /\ locals' = [phase |-> "matched", clean_phone |-> locals.clean_phone,
                       response |-> locals.response, exact_matches |-> f.exact_matches]
    /\ pc' = "done"
    /\ UNCHANGED <<api, outside, op, args, req, trace, calls, resp>>

-----------------------------------------------------------------------------
(* Last-visit resolution: YClientsAPI.get_client_last_visit_info *)

NoDate == JStr("")

\* the order Python gives the date strings of the model: '' < '2024-01-01' < ...
DateRank(date) ==
    CASE date = JStr("") -> 0
      [] date = JStr("2024-01-01") -> 1
      [] date = JStr("2024-02-01") -> 2
      [] date = JStr("2024-03-01") -> 3

\* key=lambda x: x.get('date', '')
DateKey(record) == Get(record, "date", NoDate)

\* int and bool compare as numbers
IsNumber(v) == v.t \in {"num", "bool"}
Number(v) == IF v.t = "bool" THEN (IF v.b THEN 1 ELSE 0) ELSE v.n

\* a == b of two decoded JSON values
RECURSIVE PyEq(_, _)
PyEq(a, b) ==
    IF IsNumber(a) /\ IsNumber(b) THEN Number(a) = Number(b)
    ELSE IF a.t # b.t THEN FALSE
    ELSE IF a.t = "list"
    THEN Len(a.l) = Len(b.l) /\ \A i \in 1..Len(a.l) : PyEq(a.l[i], b.l[i])
    ELSE IF a.t = "dict"
    THEN DOMAIN a.d = DOMAIN b.d /\ \A k \in DOMAIN a.d : PyEq(a.d[k], b.d[k])
    ELSE IF a.t = "str" THEN Chars(a) = Chars(b)
    ELSE a = b

\* the printable ASCII characters in code point order (without the double quote,
\* the backslash and the backtick)
Ascii ==
    " !#$%&'()*+,-./0123456789:;<=>?@ABCDEFGHIJKLMNOPQRSTUVWXYZ[]^_abcdefghijklmnopqrstuvwxyz{|}~"

\* the place of a character in the order of code points
CharRank(ch) == CHOOSE i \in 1..Len(Ascii) : SubSeq(Ascii, i, i) = ch

\* a < b of two str, given by their characters: the first differing characters
\* decide, a proper prefix is smaller
CharsLess(a, b) ==
    LET n == IF Len(a) < Len(b) THEN Len(a) ELSE Len(b)
        differ == { i \in 1..n : a[i] # b[i] } IN
    IF differ = {} THEN Len(a) < Len(b)
    ELSE LET i == CHOOSE i \in differ : \A j \in differ : i <= j IN
         CharRank(a[i]) < CharRank(b[i])

\* a < b of two keys: "true", "false", or "raise" for the TypeError of two values
\* Python does not order (None, a dict, values of different kinds). Numbers compare
\* by value, strings by their characters, lists by their first differing elements
RECURSIVE KeyLess(_, _)
KeyLess(a, b) ==
    LET Is(less) == IF less THEN "true" ELSE "false" IN
    IF IsNumber(a) /\ IsNumber(b) THEN Is(Number(a) < Number(b))
    ELSE IF a.t = "str" /\ b.t = "str" THEN Is(CharsLess(Chars(a), Chars(b)))
    ELSE IF a.t = "list" /\ b.t = "list"
    THEN LET n == IF Len(a.l) < Len(b.l) THEN Len(a.l) ELSE Len(b.l)
             differ == { i \in 1..n : ~PyEq(a.l[i], b.l[i]) } IN
         IF differ = {} THEN Is(Len(a.l) < Len(b.l))
         ELSE LET i == CHOOSE i \in differ : \A j \in differ : i <= j IN
              KeyLess(a.l[i], b.l[i])
    ELSE "raise"

\* x < y of the keys of two records
Less(x, y) == KeyLess(DateKey(x), DateKey(y))

Reverse(s) == [i \in 1..Len(s) |-> s[Len(s) + 1 - i]]

SortRaises == Raised("TypeError", JStr("'<' not supported between instances"))

\* StartsDescending taking two equal keys for a descending run, which is then
\* reversed: equal dates do not keep their order
StartsDescending_nonstrict(xs) ==
    LET less == Less(xs[1], xs[2]) IN
    CASE less = "true" -> "false"
      [] less = "false" -> "true"
      [] OTHER -> less

\* count_run, first comparison: the run is descending when the second key is
\* strictly smaller than the first
StartsDescending(xs) == Less(xs[2], xs[1])

\* count_run, the rest: the length of the run that starts the list and reaches
\* index i; it goes on while the next key is smaller than its predecessor
\* (descending) or not smaller (ascending)
RECURSIVE RunLength(_, _, _)
RunLength(xs, i, descending) ==
    IF i = Len(xs) THEN [kind |-> "run", n |-> i]
    ELSE LET less == Less(xs[i + 1], xs[i]) IN
         IF less = "raise" THEN SortRaises
         ELSE IF (less = "true") = descending THEN RunLength(xs, i + 1, descending)
         ELSE [kind |-> "run", n |-> i]

\* binarysort, the search: where pivot goes among the sorted records, after every
\* record whose key is not greater (l and r count from 0, as in the loop)
RECURSIVE BinarySearch(_, _, _, _)
BinarySearch(sorted, pivot, l, r) ==
    LET p == l + ((r - l) \div 2)
        less == Less(pivot, sorted[p + 1]) IN
    IF less = "raise" THEN SortRaises
    ELSE LET l2 == IF less = "true" THEN l ELSE p + 1
             r2 == IF less = "true" THEN p ELSE r IN
         IF l2 < r2 THEN BinarySearch(sorted, pivot, l2, r2) ELSE [kind |-> "at", l |-> l2]

\* binarysort: the first n records are sorted, the others are inserted one by one
RECURSIVE BinarySort(_, _)
BinarySort(xs, n) ==
    IF n = Len(xs) THEN [kind |-> "sorted", records |-> xs]
    ELSE LET pivot == xs[n + 1]
             at == BinarySearch(SubSeq(xs, 1, n), pivot, 0, n) IN
         IF at.kind # "at" THEN at
         ELSE BinarySort(SubSeq(xs, 1, at.l) \o <<pivot>> \o SubSeq(xs, at.l + 1, n)
                           \o SubSeq(xs, n + 2, Len(xs)),
                         n + 1)

\* list.sort on fewer than 64 records, ascending and stable: the run that starts
\* the list (reversed when descending), then binary insertion of the rest; no
\* comparison at all for fewer than two records
SortAscending(xs) ==
    IF Len(xs) < 2 THEN [kind |-> "sorted", records |-> xs]
    ELSE LET descending == StartsDescending(xs) IN
         IF descending = "raise" THEN SortRaises
         ELSE LET counted == RunLength(xs, 2, descending = "true") IN
              IF counted.kind # "run" THEN counted
              ELSE BinarySort(IF descending = "true"
                              THEN Reverse(SubSeq(xs, 1, counted.n))
                                     \o SubSeq(xs, counted.n + 1, Len(xs))
                              ELSE xs,
                              counted.n)

\* sorted(records, key=..., reverse=True): the list is reversed, sorted ascending and
\* reversed again, so records of equal keys keep their order; TypeError when two
\* keys that get compared cannot be ordered
SortDescending(records) ==
    LET ascending == SortAscending(Reverse(records)) IN
    IF ascending.kind # "sorted" THEN ascending
    ELSE [kind |-> "sorted", records |-> Reverse(ascending.records)]

\* sorted(records, key=lambda x: x.get('date', ''), reverse=True) for a truthy records
SortRecords(records) ==
    CASE records.t = "list" ->
            IF \E i \in 1..Len(records.l) : ~IsDict(records.l[i])
            THEN Raised("AttributeError", JStr("object has no attribute 'get'"))
            ELSE SortDescending(records.l)
      [] records.t \in {"dict", "str"} ->
            Raised("AttributeError", JStr("'str' object has no attribute 'get'"))
      [] OTHER -> Raised("TypeError", JStr("object is not iterable"))

\* last_staff, built from the record and its staff
LastStaff(record, staff) ==
    JDict([id |-> Get(staff, "id", JNull),
           name |-> Get(staff, "name", JNull),
           specialization |-> Get(staff, "specialization", JStr("")),
           last_visit_date |-> Get(record, "date", NoDate),
           last_visit_id |-> Get(record, "id", JNull),
           attendance |-> Get(record, "attendance", JNull)])

\* ScanRecords settling for a staff object that has an id: the name is not looked at
RECURSIVE ScanRecords_id_only(_)
ScanRecords_id_only(sorted) ==
    IF sorted = <<>> THEN Returned(JNull)
    ELSE LET record == Head(sorted)
             staff == Get(record, "staff", JNull) IN
         IF ~Truthy(staff) THEN ScanRecords_id_only(Tail(sorted))
         ELSE IF ~IsDict(staff)
         THEN Raised("AttributeError", JStr("object has no attribute 'get'"))
         ELSE IF Truthy(Get(staff, "id", JNull))
         THEN Returned(LastStaff(record, staff))
         ELSE ScanRecords_id_only(Tail(sorted))

\* for record in sorted_records: the first one with staff id and name, else None
RECURSIVE ScanRecords(_)
ScanRecords(sorted) ==
    IF sorted = <<>> THEN Returned(JNull)
    ELSE LET record == Head(sorted)
             staff == Get(record, "staff", JNull) IN
         IF ~Truthy(staff) THEN ScanRecords(Tail(sorted))
         ELSE IF ~IsDict(staff)
         THEN Raised("AttributeError", JStr("object has no attribute 'get'"))
         ELSE IF Truthy(Get(staff, "id", JNull)) /\ Truthy(Get(staff, "name", JNull))
         THEN Returned(LastStaff(record, staff))
         ELSE ScanRecords(Tail(sorted))

\* get_client_last_visit_info once client_visits has returned visits
LastVisitOutcome(visits) ==
    IF ~IsDict(visits) \/ ~HasKey(visits, "data") THEN Returned(JNull)
    ELSE IF ~IsDict(visits.d.data)
    THEN Raised("AttributeError", JStr("object has no attribute 'get'"))
    ELSE LET records == Get(visits.d.data, "records", JList(<<>>)) IN
         IF ~Truthy(records) THEN Returned(JNull)
         ELSE LET sorted == SortRecords(records) IN
              IF sorted.kind # "sorted" THEN sorted
              ELSE ScanRecords(sorted.records)

\* get_client_last_visit_info(phone): validation, then _find_client_by_phone
get_client_last_visit_info(P) ==
    /\ Idle
    /\ \E phone \in P :
         /\ op' = "get_client_last_visit_info"
         /\ args' = [phone |-> phone]
         /\ IF ~Truthy(phone)
            THEN /\ RaiseEarly("ValueError", "Phone number is required")
                 /\ UNCHANGED locals
            ELSE EnterFindClientByPhone(phone, "find")
    /\ UNCHANGED <<outside, trace>>

\* the client search has returned: match, then client_visits(client_id=..., include_staff=True)
last_visit_match ==
    /\ pc = "resume"
    /\ op = "get_client_last_visit_info"
    /\ locals.phase = "find"
    /\ LET f == FindOutcome(locals.response, locals.clean_phone) IN
         IF f.outcome.kind # "return" \/ ~Truthy(f.outcome.value)
         THEN /\ pc' = "done"
              /\ result' = f.outcome
              /\ locals' = [phase |-> "matched", exact_match |-> JNull]
              /\ UNCHANGED <<api, req, calls, resp>>
         ELSE LET exact_match == f.outcome.value
                  client_id == Get(exact_match, "id", JNull) IN
              /\ locals' = [phase |-> "visits", exact_match |-> exact_match,
                            client_id |-> client_id, response |-> JNull]
              /\ EnterClientVisits(JNull, client_id, TRUE, TRUE)
    /\ UNCHANGED <<outside, op, args, trace>>

\* the visit history has returned: sort, scan, return
last_visit_finish ==
    /\ pc = "resume"
    /\ op = "get_client_last_visit_info"
    /\ locals.phase = "visits"
    /\ result' = LastVisitOutcome(locals.response)
    /\ pc' = "done"
    /\ UNCHANGED <<api, outside, op, args, req, trace, calls, resp, locals>>

-----------------------------------------------------------------------------
(* Operations that reshape the response: list_branches, list_services,
   list_services_by_staff *)

\* params of list_branches: group_id when truthy, my=1 when my_companies
BranchParams(group_id, my_companies) ==
    LET keys == (IF Truthy(group_id) THEN {"group_id"} ELSE {})
                \cup (IF my_companies THEN {"my"} ELSE {}) IN
    JDict([k \in keys |-> IF k = "group_id" THEN group_id ELSE JNum(1)])

\* list_branches(active_only=..., group_id=..., my_companies=...): GET /companies
list_branches(A, G, M) ==
    /\ Idle
    /\ \E active_only \in A, group_id \in G, my_companies \in M :
         /\ op' = "list_branches"
         /\ args' = [active_only |-> active_only, group_id |-> group_id,
                     my_companies |-> my_companies]
         /\ locals' = [response |-> JNull]
         /\ EnterRequest("GET", "/companies", BranchParams(group_id, my_companies), JNull, FALSE)
    /\ UNCHANGED <<outside, trace, result>>

\* KeepBranch keeping every entry: the disabled flag is not looked at
KeepBranch_all(c) == TRUE

\* not c.get("disabled", False)
KeepBranch(c) == ~Truthy(Get(c, "disabled", JBool(FALSE)))

\* ActiveBranches extending a list that already holds the kept entries, as if the
\* filter wrote into a list that is not new
ActiveBranches_extending(branches) ==
    IF \E i \in 1..Len(branches) : ~IsDict(branches[i])
    THEN Raised("AttributeError", JStr("object has no attribute 'get'"))
    ELSE Returned(JList(SelectSeq(branches, KeepBranch) \o SelectSeq(branches, KeepBranch)))

\* [c for c in branches if not c.get("disabled", False)]: a new list of the entries
\* kept
ActiveBranches(branches) ==
    IF \E i \in 1..Len(branches) : ~IsDict(branches[i])
    THEN Raised("AttributeError", JStr("object has no attribute 'get'"))
    ELSE Returned(JList(SelectSeq(branches, KeepBranch)))

\* the standard format: success and meta of the response, defaulted, around data
Standard(response, data) ==
    JDict([success |-> Get(response, "success", JBool(TRUE)),
           data |-> data,
           meta |-> Get(response, "meta", JList(<<>>))])

\* list_branches once _request has returned response. Of the dict case only the first
\* branch ("data" in response) and the last (return response) can be taken: without a
\* data key response.get("data") is None, and a dict is not a list.
BranchesOutcome(response, active_only) ==
    LET wrapped == IsDict(response) /\ HasKey(response, "data")
        found == wrapped \/ IsList(response)
        branches == IF wrapped THEN response.d.data ELSE response
        filtered == IF active_only /\ IsList(branches)
                    THEN ActiveBranches(branches.l)
                    ELSE Returned(branches) IN
    IF ~found THEN Returned(response)
    ELSE IF filtered.kind # "return" THEN filtered
    ELSE IF wrapped THEN Returned(Standard(response, filtered.value))
    ELSE filtered

\* list_branches after its call of _request: unwrap, filter, return
branches_finish ==
    /\ pc = "resume"
    /\ op = "list_branches"
    /\ result' = BranchesOutcome(locals.response, args.active_only)
    /\ pc' = "done"
    /\ UNCHANGED <<api, outside, op, args, req, trace, calls, resp, locals>>

\* params of list_services: staff_id and datetime when truthy
ServiceParams(staff_id, date_time) ==
    LET keys == (IF Truthy(staff_id) THEN {"staff_id"} ELSE {})
                \cup (IF Truthy(date_time) THEN {"datetime"} ELSE {}) IN
    JDict([k \in keys |-> IF k = "staff_id" THEN staff_id ELSE date_time])

\* params of list_services_by_staff: staff_id always, datetime when truthy
StaffServiceParams(staff_id, date_time) ==
    LET keys == {"staff_id"} \cup (IF Truthy(date_time) THEN {"datetime"} ELSE {}) IN
    JDict([k \in keys |-> IF k = "staff_id" THEN staff_id ELSE date_time])

BookServicesPath(a) == "/book_services/" \o CompanyPath(a)

\* list_services(staff_id=..., date_time=...): GET /book_services/{company_id}
list_services(S, D) ==
    /\ Idle
    /\ \E staff_id \in S, date_time \in D :
         /\ op' = "list_services"
         /\ args' = [staff_id |-> staff_id, date_time |-> date_time]
         /\ locals' = [response |-> JNull]
         /\ EnterRequest("GET", BookServicesPath(api), ServiceParams(staff_id, date_time),
                         JNull, FALSE)
    /\ UNCHANGED <<outside, trace, result>>

\* list_services_by_staff(staff_id, date_time=...): GET /book_services/{company_id}
list_services_by_staff(S, D) ==
    /\ Idle
    /\ \E staff_id \in S, date_time \in D :
         /\ op' = "list_services_by_staff"
         /\ args' = [staff_id |-> staff_id, date_time |-> date_time]
         /\ locals' = [response |-> JNull]
         /\ EnterRequest("GET", BookServicesPath(api), StaffServiceParams(staff_id, date_time),
                         JNull, FALSE)
    /\ UNCHANGED <<outside, trace, result>>

\* key in container: a key of a dict, an element of a list, a substring of a str;
\* TypeError for a value that is not a container
Contains(container, key) ==
    CASE container.t = "dict" -> [kind |-> "bool", b |-> key \in DOMAIN container.d]
      [] container.t = "list" ->
            [kind |-> "bool",
             b |-> \E i \in 1..Len(container.l) :
                      container.l[i].t = "str" /\ Chars(container.l[i]) = Chars(JStr(key))]
      [] container.t = "str" ->
            [kind |-> "bool", b |-> IsSubstring(key, Chars(container))]
      [] OTHER -> Raised("TypeError", JStr("argument is not iterable"))

\* the test of both operations and the read of response["data"]["services"]: the
\* services, nothing to hoist, or the exception either step raises
Hoistable(response) ==
    IF ~(IsDict(response) /\ HasKey(response, "data")) THEN [kind |-> "absent"]
    ELSE LET has == Contains(response.d.data, "services") IN
         IF has.kind # "bool" THEN has
         ELSE IF ~has.b THEN [kind |-> "absent"]
         ELSE IF ~IsDict(response.d.data)
         THEN Raised("TypeError", JStr("indices must be integers"))
         ELSE [kind |-> "services", services |-> response.d.data.d.services]

\* list_services once _request has returned response
ServicesOutcome(response) ==
    LET h == Hoistable(response) IN
    CASE h.kind = "absent" -> Returned(response)
      [] h.kind = "services" -> Returned(Standard(response, h.services))
      [] OTHER -> h

\* StaffServicesOutcome returning what list_services returns: the categories are dropped
StaffServicesOutcome_as_list_services(response) == ServicesOutcome(response)

\* list_services_by_staff once _request has returned response
StaffServicesOutcome(response) ==
    LET h == Hoistable(response) IN
    CASE h.kind = "absent" -> Returned(response)
      [] h.kind = "services" ->
            Returned(JDict([success |-> Get(response, "success", JBool(TRUE)),
                            data |-> h.services,
                            categories |-> Get(response.d.data, "categories", JList(<<>>)),
                            meta |-> Get(response, "meta", JList(<<>>))]))
      [] OTHER -> h

\* list_services / list_services_by_staff after the call of _request: hoist, return
services_finish ==
    /\ pc = "resume"
    /\ op \in {"list_services", "list_services_by_staff"}
    /\ result' = (IF op = "list_services"
                  THEN ServicesOutcome(locals.response)
                  ELSE StaffServicesOutcome(locals.response))
    /\ pc' = "done"
    /\ UNCHANGED <<api, outside, op, args, req, trace, calls, resp, locals>>

-----------------------------------------------------------------------------
(* The service catalog: build_complete_service_catalog *)

\* target_company_id = company_id or self.company_id
TargetCompany(a, company_id) == IF Truthy(company_id) THEN company_id.n ELSE a.company_id

\* build_complete_service_catalog(company_id=...): first list_service_categories(
\* include_services=True, company_id=target_company_id)
build_complete_service_catalog(C) ==
    /\ Idle
    /\ \E company_id \in C :
         LET target == TargetCompany(api, company_id) IN
         /\ op' = "build_complete_service_catalog"
         /\ args' = [company_id |-> company_id]
         /\ locals' = [phase |-> "categories", target_company_id |-> target,
                       response |-> JNull, categories_response |-> JNull]
         /\ EnterRequest("GET", "/company/" \o Str(target) \o "/service_categories",
                         CategoryParams(TRUE), JNull, TRUE)
    /\ UNCHANGED <<outside, trace, result>>

\* the categories have come back: list_company_services(), or the same request for
\* the overriding company
catalog_services ==
    /\ pc = "resume"
    /\ op = "build_complete_service_catalog"
    /\ locals.phase = "categories"
    /\ locals' = [locals EXCEPT !.phase = "services",
                                !.categories_response = locals.response,
                                !.response = JNull]
    /\ EnterRequest("GET", "/company/" \o Str(locals.target_company_id) \o "/services",
                    JNull, JNull, TRUE)
    /\ UNCHANGED <<outside, op, args, trace, result>>

\* response["data"] of a mapping with data, the response itself when it is a list,
\* else []
DataOrList(response) ==
    IF IsDict(response) /\ HasKey(response, "data") THEN response.d.data
    ELSE IF IsList(response) THEN response
    ELSE JList(<<>>)

\* for x in v: the elements of a list, the keys of a dict, the characters of a str
\* (in the model a non-empty dict or str yields one str, which is all the loops look
\* at before raising); TypeError for anything else
Iterate(v) ==
    CASE v.t = "list" -> [kind |-> "items", items |-> v.l]
      [] v.t = "dict" ->
            [kind |-> "items", items |-> IF DOMAIN v.d = {} THEN <<>> ELSE <<JStr("key")>>]
      [] v.t = "str" ->
            [kind |-> "items", items |-> IF Truthy(v) THEN <<JStr("char")>> ELSE <<>>]
      [] OTHER -> Raised("TypeError", JStr("object is not iterable"))

\* service_data, the formatted service
ServiceData(service) ==
    JDict([service_id |-> service.d.id,
           title |-> Get(service, "title", JStr("")),
           price_min |-> Get(service, "price_min", JNum(0)),
           price_max |-> Get(service, "price_max", JNum(0)),
           duration_seconds |-> Get(service, "seance_length", JNull),
           staff |-> Get(service, "staff", JList(<<>>))])

\* hash(key) of a dict key: a list and a dict are unhashable
Unhashable(key) == key.t \in {"list", "dict"}
UnhashableError(key) == Raised("TypeError", JStr("unhashable type: '" \o key.t \o "'"))

\* the exception the grouping loop raises on the first service it cannot handle: one
\* that is not a mapping, one whose truthy category_id cannot be a key of
\* services_by_category, or one with a category_id and no id
RECURSIVE GroupingError(_)
GroupingError(services) ==
    IF services = <<>> THEN [kind |-> "none"]
    ELSE LET service == Head(services) IN
         IF ~IsDict(service)
         THEN Raised("AttributeError", JStr("object has no attribute 'get'"))
         ELSE LET category_id == Get(service, "category_id", JNull) IN
              IF ~Truthy(category_id) THEN GroupingError(Tail(services))
              ELSE IF Unhashable(category_id) THEN UnhashableError(category_id)
              ELSE IF ~HasKey(service, "id") THEN Raised("KeyError", JStr("'id'"))
              ELSE GroupingError(Tail(services))

\* the exception the loop over categories_raw raises on the first category it cannot
\* handle: one that is not a mapping, or one whose id cannot be looked up in
\* services_by_category
RECURSIVE CategoryError(_)
CategoryError(categories) ==
    IF categories = <<>> THEN [kind |-> "none"]
    ELSE LET category == Head(categories) IN
         IF ~IsDict(category)
         THEN Raised("AttributeError", JStr("object has no attribute 'get'"))
         ELSE IF Unhashable(Get(category, "id", JNull))
         THEN UnhashableError(Get(category, "id", JNull))
         ELSE CategoryError(Tail(categories))

\* the formatted services of the sequence, in order
RECURSIVE FormatServices(_)
FormatServices(services) ==
    IF services = <<>> THEN <<>>
    ELSE <<ServiceData(Head(services))>> \o FormatServices(Tail(services))

\* Grouped keeping the services in reverse order of the flat list
Grouped_reversed(services, category_id) ==
    LET InGroup(service) ==
           LET c == Get(service, "category_id", JNull) IN
           Truthy(c) /\ PyEq(c, category_id)
        g == FormatServices(SelectSeq(services, InGroup)) IN
    [i \in 1..Len(g) |-> g[Len(g) + 1 - i]]

\* services_by_category.get(category_id, []): the formatted services whose truthy
\* category_id is the same dict key as category_id (keys are equal when == holds, so
\* True is the key 1), in the order of the flat list
Grouped(services, category_id) ==
    LET InGroup(service) ==
           LET c == Get(service, "category_id", JNull) IN
           Truthy(c) /\ PyEq(c, category_id) IN
    FormatServices(SelectSeq(services, InGroup))

\* category_data of one category
CategoryData(category, services) ==
    LET category_id == Get(category, "id", JNull) IN
    JDict([category_id |-> category_id,
           title |-> Get(category, "title", JStr("")),
           services |-> JList(Grouped(services, category_id))])

\* build_complete_service_catalog once both responses are in: group, attach, count
CatalogOutcome(target_company_id, categories_response, services_response) ==
    LET categories_raw == Iterate(DataOrList(categories_response))
        services_data == Iterate(DataOrList(services_response)) IN
    IF services_data.kind # "items" THEN CatalogFailure(services_data)
    ELSE IF GroupingError(services_data.items).kind # "none"
    THEN CatalogFailure(GroupingError(services_data.items))
    ELSE IF categories_raw.kind # "items" THEN CatalogFailure(categories_raw)
    ELSE IF CategoryError(categories_raw.items).kind # "none"
    THEN CatalogFailure(CategoryError(categories_raw.items))
    ELSE Returned(JDict(
           [company_id |-> JNum(target_company_id),
            company_title |-> JStr("Company " \o Str(target_company_id)),
            categories |-> JList([i \in 1..Len(categories_raw.items) |->
                                    CategoryData(categories_raw.items[i], services_data.items)]),
            total_categories |-> JNum(Len(categories_raw.items)),
            total_services |-> JNum(Len(services_data.items))]))

\* the services have come back: build the catalog and return it
catalog_build ==
    /\ pc = "resume"
    /\ op = "build_complete_service_catalog"
    /\ locals.phase = "services"
    /\ result' = CatalogOutcome(locals.target_company_id, locals.categories_response,
                                locals.response)
    /\ pc' = "done"
    /\ UNCHANGED <<api, outside, op, args, req, trace, calls, resp, locals>>

-----------------------------------------------------------------------------
(* The wrapper's transport operations, called one after the other on one instance *)

InitCall ==
    /\ pc = "idle"
    /\ op = "none"
    /\ args = NoArgs
    /\ req = NoReq
    /\ trace = <<>>
    /\ calls = <<>>
    /\ resp = NoResp
    /\ locals = NoLocals
    /\ result = NoResult
    /\ history = <<>>
    /\ NoSyncer
    /\ peer = NoPeer

Init ==
    /\ api \in Instances
    /\ InitCall

SomeFilters == {JNull, JList(<<>>), JList(<<JDict([phone |-> JChars(<<"7">>)])>>)}
SomeNames == {JNull, JStr("John")}
SomePhones == {JNull, JChars(<<>>), JChars(<<"+", "-">>), JChars(<<"+", "7", " ", "9">>)}
SomeEmails == {JNull}
SomeClientIds == {JNull, JNum(0), JNum(7)}
SomeIncludes == {[services |-> TRUE, staff |-> TRUE], [services |-> FALSE, staff |-> FALSE]}

Next ==
    \/ list_staff
    \/ get_client
    \/ list_company_services
    \/ list_service_categories
    \/ search_clients(SomeFilters)
    \/ find_client(SomeNames, SomePhones, SomeEmails)
    \/ client_visits(SomePhones, SomeClientIds, SomeIncludes)
    \/ request_send(GenericBodies)
    \/ request_sleep
    \/ Reset

Spec == Init /\ [][Next]_vars

-----------------------------------------------------------------------------
(* Client lookup by phone: the operations of a fully credentialed instance, with the
   client-search and visit-history responses the platform can give *)

P_full == <<"7", "9", "1", "2", "3", "4", "5", "6", "7", "8", "9">>
P_formatted ==
    <<"+", "7", " ", "(", "9", "1", "2", ")", " ", "3", "4", "5", "-", "6", "7", "-", "8", "9">>
P_plus == <<"+", "7", "9", "1", "2", "3", "4", "5", "6", "7", "8", "9">>
P_other_prefix == <<"8", "9", "1", "2", "3", "4", "5", "6", "7", "8", "9">>
P_local == <<"9", "1", "2", "3", "4", "5", "6", "7", "8", "9">>
P_seven == <<"3", "4", "5", "6", "7", "8", "9">>
P_six == <<"4", "5", "6", "7", "8", "9">>
P_6789 == <<"6", "7", "8", "9">>
P_1768 == <<"1", "7", "6", "8">>
P_no_digit == <<"n", "/", "a">>

\* the phones callers pass
InputPhones ==
    { JChars(p) : p \in {P_full, P_formatted, P_local, P_seven, P_six, P_6789, P_1768,
                         P_no_digit, <<>>} }

\* client records as the search endpoint returns them
Candidates ==
    { JDict([id |-> JNum(7), phone |-> JChars(P_full)]),
      JDict([id |-> JNum(8), phone |-> JChars(P_plus)]),
      JDict([id |-> JNum(9), phone |-> JChars(P_other_prefix)]),
      JDict([id |-> JNum(10), phone |-> JChars(P_6789)]),
      JDict([id |-> JNum(11)]),
      JDict([id |-> JNum(12), phone |-> JChars(<<>>)]),
      JDict([id |-> JNum(13), phone |-> JNull]),
      JDict([id |-> JNum(14), phone |-> JChars(P_no_digit)]),
      JDict([id |-> JNum(15), phone |-> JChars(P_local)]),
      JDict([phone |-> JChars(P_full)]) }

CandidateLists == UNION { [1..n -> Candidates] : n \in 0..MaxCands }

SearchValues ==
    { JDict([success |-> JBool(TRUE), data |-> JList(l), meta |-> JDict(EmptyD)]) :
        l \in CandidateLists }
    \cup { JList(<<>>),
           JDict([success |-> JBool(TRUE)]),
           JDict([success |-> JBool(TRUE), data |-> JNull]),
           JDict([success |-> JBool(FALSE), meta |-> JDict([message |-> JStr("denied")])]) }

SearchBodies == {NoBody} \cup { JsonBody(v) : v \in SearchValues }

\* visit records as the visit-history endpoint returns them
VisitRecords ==
    { JDict([id |-> JNum(1), date |-> JStr("2024-01-01"), staff |-> JNull]),
      JDict([id |-> JNum(2), date |-> JStr("2024-03-01"), attendance |-> JNum(1),
             staff |-> JDict([id |-> JNum(5), name |-> JStr("A")])]),
      JDict([id |-> JNum(3), date |-> JStr("2024-02-01"),
             staff |-> JDict([id |-> JNum(6), name |-> JStr("B")])]),
      JDict([id |-> JNum(4), staff |-> JDict([id |-> JNum(7), name |-> JStr("C")])]),
      JDict([id |-> JNum(5), date |-> JStr("2024-03-01"), staff |-> JDict([id |-> JNum(8)])]),
      JDict([id |-> JNum(6), date |-> JStr("2024-03-01"),
             staff |-> JDict([id |-> JNum(9), name |-> JStr("D")])]),
      JDict([id |-> JNum(7), date |-> JNull,
             staff |-> JDict([id |-> JNum(10), name |-> JStr("E")])]) }

\* three records out of date order, the newest with usable staff in the middle
ExampleRecords ==
    << JDict([id |-> JNum(1), date |-> JStr("2024-01-01"), staff |-> JNull]),
       JDict([id |-> JNum(2), date |-> JStr("2024-03-01"), attendance |-> JNum(1),
              staff |-> JDict([id |-> JNum(5), name |-> JStr("A")])]),
       JDict([id |-> JNum(3), date |-> JStr("2024-02-01"),
              staff |-> JDict([id |-> JNum(6), name |-> JStr("B")])]) >>

RecordLists == UNION { [1..n -> VisitRecords] : n \in 0..MaxRecords } \cup {ExampleRecords}

VisitValues ==
    { JDict([success |-> JBool(TRUE), data |-> JDict([records |-> JList(l)])]) :
        l \in RecordLists }
    \cup { JList(<<>>),
           JDict([success |-> JBool(TRUE)]),
           JDict([success |-> JBool(TRUE), data |-> JList(<<>>)]) }

VisitBodies == {NoBody} \cup { JsonBody(v) : v \in VisitValues }

InitClient ==
    /\ api \in { NewAPI(1, "p1", JStr("u1"), 10000, m, 500) : m \in {0, 1} }
    /\ InitCall

\* the answer to an attempt of the client search
search_answer ==
    /\ pc = "request"
    /\ req.url = BASE_URL \o SearchPath(api)
    /\ request_send(SearchBodies)

\* the answer to an attempt of the visit-history search
visits_answer ==
    /\ pc = "request"
    /\ req.url = BASE_URL \o VisitsPath(api)
    /\ request_send(VisitBodies)

VisitIncludes == {[services |-> TRUE, staff |-> TRUE]}

NextClient ==
    \/ client_visits(InputPhones \cup {JNull}, SomeClientIds, VisitIncludes)
    \/ find_client_by_phone(InputPhones)
    \/ get_client_last_visit_info(InputPhones)
    \/ search_answer
    \/ visits_answer
    \/ request_sleep
    \/ find_match
    \/ last_visit_match
    \/ last_visit_finish
    \/ Reset

SpecClient == InitClient /\ [][NextClient]_vars

-----------------------------------------------------------------------------
(* The reshaping operations, with the responses the platform can give to each of
   their requests *)

\* companies as GET /companies returns them, with every kind of disabled flag
BranchItems ==
    { JDict([id |-> JNum(1)]),
      JDict([id |-> JNum(2), disabled |-> JBool(FALSE)]),
      JDict([id |-> JNum(3), disabled |-> JBool(TRUE)]),
      JDict([id |-> JNum(4), disabled |-> JNum(0)]),
      JDict([id |-> JNum(5), disabled |-> JNull]) }

BranchLists == UNION { [1..n -> BranchItems] : n \in 0..MaxItems }

BranchValues ==
    { JDict([success |-> JBool(TRUE), data |-> JList(l), meta |-> JDict([count |-> JNum(Len(l))])]) :
        l \in BranchLists }
    \cup { JDict([data |-> JList(l)]) : l \in BranchLists }
    \cup { JList(l) : l \in BranchLists }
    \cup { JDict([success |-> JBool(TRUE), data |-> JNull, meta |-> JList(<<>>)]),
           JDict([success |-> JBool(TRUE), data |-> JList(<<JNum(5)>>), meta |-> JList(<<>>)]),
           JDict([success |-> JBool(TRUE)]),
           JList(<<JNum(5)>>),
           JStr("ok"),
           JNull }

BranchBodies == {NoBody} \cup { JsonBody(v) : v \in BranchValues }

\* services and categories as GET /book_services returns them
BookedServices == { JDict([id |-> JNum(1)]), JDict([id |-> JNum(2)]) }
BookedServiceLists == UNION { [1..n -> BookedServices] : n \in 0..MaxItems }
BookedCategories == { JList(<<>>), JList(<<JDict([id |-> JNum(9)])>>) }

\* the data of a book_services response, as it should be and as it should not
BookData ==
    { JDict([services |-> JList(l), categories |-> c]) :
        l \in BookedServiceLists, c \in BookedCategories }
    \cup { JDict([services |-> JList(l)]) : l \in BookedServiceLists }
    \cup { JDict([services |-> JNull]),
           JDict([categories |-> JList(<<JDict([id |-> JNum(9)])>>)]),
           JDict(EmptyD),
           JList(<<>>),
           JList(<<JDict([id |-> JNum(1)])>>),
           JList(<<JStr("services")>>),
           JStr("services"),
           JStr("ok"),
           JNum(5),
           JNull }

BookValues ==
    { JDict([success |-> JBool(TRUE), data |-> d, meta |-> JDict([count |-> JNum(1)])]) :
        d \in BookData }
    \cup { JDict([data |-> d]) : d \in BookData }
    \cup { JDict([success |-> JBool(TRUE)]), JList(<<>>), JStr("ok"), JNull }

BookBodies == {NoBody} \cup { JsonBody(v) : v \in BookValues }

InitNormalize ==
    /\ api \in { NewAPI(1, "p1", JStr("u1"), 10000, m, 500) : m \in {0, 1} }
    /\ InitCall

\* the answer to an attempt of GET /companies
branches_answer ==
    /\ op = "list_branches"
    /\ request_send(BranchBodies)

\* the answer to an attempt of GET /book_services/{company_id}
book_services_answer ==
    /\ op \in {"list_services", "list_services_by_staff"}
    /\ request_send(BookBodies)

SomeGroups == {JNull, JNum(3)}
SomeStaffIds == {JNull, JNum(4)}
SomeDateTimes == {JNull, JStr("2024-03-01")}

NextNormalize ==
    \/ list_branches(BOOLEAN, SomeGroups, BOOLEAN)
    \/ list_services(SomeStaffIds, SomeDateTimes)
    \/ list_services_by_staff({JNum(4)}, SomeDateTimes)
    \/ branches_answer
    \/ book_services_answer
    \/ request_sleep
    \/ branches_finish
    \/ services_finish
    \/ Reset

SpecNormalize == InitNormalize /\ [][NextNormalize]_vars

-----------------------------------------------------------------------------
(* The catalog, built on an instance that does not retry (max_retries = 0), with the
   responses the platform can give to its two requests *)

\* categories as GET /company/{id}/service_categories returns them
CategoryItems ==
    { JDict([id |-> JNum(1), title |-> JStr("c1")]),
      JDict([id |-> JNum(2)]),
      JDict([id |-> JNum(0)]),
      JDict([title |-> JStr("x")]) }

\* services as GET /company/{id}/services returns them
ServiceItems ==
    { JDict([id |-> JNum(10), category_id |-> JNum(1), title |-> JStr("s10"),
             price_min |-> JNum(5), price_max |-> JNum(7), seance_length |-> JNum(60),
             staff |-> JList(<<JDict([id |-> JNum(1)])>>)]),
      JDict([id |-> JNum(11), category_id |-> JNum(1)]),
      JDict([id |-> JNum(12), category_id |-> JNum(99)]),
      JDict([id |-> JNum(13)]),
      JDict([id |-> JNum(14), category_id |-> JNum(0)]),
      JDict([id |-> JNum(15), category_id |-> JNum(2)]),
      JDict([category_id |-> JNum(1)]) }

\* categories 1 and 2, and services 10 and 11 of category 1 and 12 of category 99
ExampleCategories == << JDict([id |-> JNum(1), title |-> JStr("c1")]), JDict([id |-> JNum(2)]) >>
ExampleServices ==
    << JDict([id |-> JNum(10), category_id |-> JNum(1), title |-> JStr("s10"),
              price_min |-> JNum(5), price_max |-> JNum(7), seance_length |-> JNum(60),
              staff |-> JList(<<JDict([id |-> JNum(1)])>>)]),
       JDict([id |-> JNum(11), category_id |-> JNum(1)]),
       JDict([id |-> JNum(12), category_id |-> JNum(99)]) >>

\* ids that are not numbers: true, and the lists and mappings no dict takes as a key
OddCategories ==
    { << JDict([id |-> JBool(TRUE), title |-> JStr("c1")]) >>,
      << JDict([id |-> JList(<<JNum(1)>>)]) >>,
      << JDict([id |-> JList(<<>>)]) >> }
OddServices ==
    { << JDict([id |-> JNum(16), category_id |-> JBool(TRUE)]) >>,
      << JDict([category_id |-> JList(<<JNum(1)>>)]) >>,
      << JDict([id |-> JNum(17), category_id |-> JDict([a |-> JNum(1)])]) >> }

CategoryLists ==
    UNION { [1..n -> CategoryItems] : n \in 0..MaxItems } \cup {ExampleCategories}
       \cup OddCategories
ServiceLists ==
    UNION { [1..n -> ServiceItems] : n \in 0..MaxItems } \cup {ExampleServices}
       \cup OddServices

\* a flat list in every envelope the catalog accepts, and the shapes it does not expect
Enveloped(lists) ==
    { JDict([success |-> JBool(TRUE), data |-> JList(l), meta |-> JList(<<>>)]) : l \in lists }
    \cup { JList(l) : l \in {<<>>} \cup { m \in lists : Len(m) = 1 } }
    \cup { JDict([success |-> JBool(TRUE), data |-> JNull]),
           JDict([success |-> JBool(TRUE), data |-> JDict([a |-> JNum(1)])]),
           JDict([success |-> JBool(TRUE), data |-> JList(<<JNum(5)>>)]),
           JDict([success |-> JBool(TRUE)]),
           JStr("ok") }

CategoryBodies == {NoBody} \cup { JsonBody(v) : v \in Enveloped(CategoryLists) }
ServiceBodies == {NoBody} \cup { JsonBody(v) : v \in Enveloped(ServiceLists) }

\* an instance constructed with max_retries=0
InitCatalog ==
    /\ api = NewAPI(1, "p1", JStr("u1"), 10000, 0, 500)
    /\ InitCall

\* the answer to the one attempt of GET /company/{id}/service_categories
categories_answer ==
    /\ op = "build_complete_service_catalog"
    /\ locals.phase = "categories"
    /\ request_send(CategoryBodies)

\* the answer to the one attempt of GET /company/{id}/services
company_services_answer ==
    /\ op = "build_complete_service_catalog"
    /\ locals.phase = "services"
    /\ request_send(ServiceBodies)

SomeCompanies == {JNull, JNum(2)}

NextCatalog ==
    \/ build_complete_service_catalog(SomeCompanies)
    \/ categories_answer
    \/ company_services_answer
    \/ catalog_services
    \/ catalog_build
    \/ Reset

SpecCatalog == InitCatalog /\ [][NextCatalog]_vars

-----------------------------------------------------------------------------
(* list_branches called again and again on one instance while the platform's data stay
   the same: every call after the first is answered as the call before it was *)

InitTwice ==
    /\ api = NewAPI(1, "p1", JNull, 10000, 0, 500)
    /\ InitCall

\* the answer to GET /companies: any answer to the first call, the same answer again
\* to every later call
same_branches_answer ==
    /\ op = "list_branches"
    /\ request_send(BranchBodies)
    /\ history # <<>> => resp' = history[1].answer

NextTwice ==
    \/ list_branches(BOOLEAN, {JNull}, {FALSE})
    \/ same_branches_answer
    \/ branches_finish
    \/ Remember

SpecTwice == InitTwice /\ [][NextTwice]_vars

-----------------------------------------------------------------------------
(* One instance used for call after call, elevated and not, each call knowing how
   the call before it went *)

SequenceBodies ==
    { NoBody, InvalidBody, JsonBody(JDict([success |-> JBool(FALSE)])) }

InitSequence ==
    /\ api \in { NewAPI(1, "p1", u, 10000, m, b) :
                    u \in {JNull, JStr("u1")}, m \in 0..MaxRetries, b \in BackoffFactors }
    /\ InitCall

NextSequence ==
    \/ list_staff
    \/ list_company_services
    \/ request_send(SequenceBodies)
    \/ request_sleep
    \/ NextCall

SpecSequence == InitSequence /\ [][NextSequence]_vars

-----------------------------------------------------------------------------
(* Two instances, each with a caller of its own, their calls interleaved step by
   step: one caller runs, the other waits where it was left *)

\* the instance in use and the state of its caller
Running ==
    [api |-> api, pc |-> pc, op |-> op, args |-> args, req |-> req, trace |-> trace,
     calls |-> calls, resp |-> resp, locals |-> locals, result |-> result]

\* Resumed with the default headers kept on the class: both instances see the headers
\* of whichever wrote them last
Resumed_shared_headers(own, other) ==
    [own EXCEPT !.api = [own.api EXCEPT !.default_headers = other.api.default_headers]]

\* what a caller finds when it runs again after the other one ran: its instance
\* (self.session, self._default_headers and the credentials are set per instance by
\* __init__) and its call (url, headers, retries are locals of _request) as it left them
Resumed(own, other) == own

\* the running caller is left where it is and the other one goes on
Switch ==
    LET next == Resumed(peer, Running) IN
    /\ peer' = Running
    /\ api' = next.api
    /\ pc' = next.pc
    /\ op' = next.op
    /\ args' = next.args
    /\ req' = next.req
    /\ trace' = next.trace
    /\ calls' = next.calls
    /\ resp' = next.resp
    /\ locals' = next.locals
    /\ result' = next.result
    /\ UNCHANGED <<history, syncing>>

\* a caller that has made no call yet on the instance a
Waiting(a) ==
    [api |-> a, pc |-> "idle", op |-> "none", args |-> NoArgs, req |-> NoReq,
     trace |-> <<>>, calls |-> <<>>, resp |-> NoResp, locals |-> NoLocals,
     result |-> NoResult]

PairBodies == { NoBody, JsonBody(JDict([success |-> JBool(FALSE)])) }

InitPair ==
    /\ api = NewAPI(1, "p1", JStr("u1"), 10000, MaxRetries, 500)
    /\ pc = "idle"
    /\ op = "none"
    /\ args = NoArgs
    /\ req = NoReq
    /\ trace = <<>>
    /\ calls = <<>>
    /\ resp = NoResp
    /\ locals = NoLocals
    /\ result = NoResult
    /\ history = <<>>
    /\ NoSyncer
    /\ peer = Waiting(NewAPI(2, "p2", JStr("u2"), 5000, 1, 1500))

NextPair ==
    \/ list_staff
    \/ list_company_services
    \/ request_send(PairBodies)
    \/ request_sleep
    \/ Reset
    \/ Switch

SpecPair == InitPair /\ [][NextPair]_vars

-----------------------------------------------------------------------------
(* _normalize_phone alone, on every phone of bounded length over PhoneChars *)

PhoneChars == {"0", "7", "+", " ", "U+0663"}

BoundedPhones == UNION { [1..n -> PhoneChars] : n \in 0..MaxLen }

InitPhone ==
    /\ api = NewAPI(1, "p1", JNull, 10000, 0, 500)
    /\ pc = "idle"
    /\ op = "none"
    /\ args \in { [phone |-> JChars(p)] : p \in BoundedPhones }
    /\ req = NoReq
    /\ trace = <<>>
    /\ calls = <<>>
    /\ resp = NoResp
    /\ locals = NoLocals
    /\ result = NoResult
    /\ history = <<>>
    /\ NoSyncer
    /\ peer = NoPeer

\* self._normalize_phone(phone)
normalize_phone_call ==
    /\ pc = "idle"
    /\ op' = "_normalize_phone"
    /\ result' = normalize_value(args.phone)
    /\ pc' = "done"
    /\ UNCHANGED <<api, outside, args, req, trace, calls, resp, locals>>

NextPhone == normalize_phone_call

SpecPhone == InitPhone /\ [][NextPhone]_vars

-----------------------------------------------------------------------------
(* The per-salon sync functions of YClientsFullDataSyncer (src/yclients_full_sync.py):
   fetch_and_save_salon_info, fetch_and_save_services_data_for_salon and
   fetch_and_save_staff_data_for_salon. Each fetches, upserts the salon's document
   and returns True or False; the last two construct their own YClientsAPI *)

YCLIENTS_TIMEOUT == 10000
YCLIENTS_MAX_RETRIES == 3
YCLIENTS_BACKOFF_FACTOR == 500

SalonIds == {5}

\* the time written with a field: get_current_time(...), adjusted for storage
AdjustedTime == JStr("adjusted_time")

\* api = YClientsAPI(company_id=salon_id, partner_token=self.partner_token, ...)
SalonAPI(salon_id) ==
    NewAPI(salon_id, syncer.partner_token, syncer.user_token,
           YCLIENTS_TIMEOUT, YCLIENTS_MAX_RETRIES, YCLIENTS_BACKOFF_FACTOR)

\* the sync function has returned v
SyncReturned(v) == [fn |-> sync.fn, salon_id |-> sync.salon_id, at |-> "returned", value |-> v]

\* the sync function takes what the wrapper call returned or raised
TakeResult ==
    /\ pc = "done"
    /\ pc' = "idle"
    /\ op' = "none"
    /\ args' = NoArgs
    /\ req' = NoReq
    /\ trace' = <<>>
    /\ calls' = <<>>
    /\ resp' = NoResp
    /\ locals' = NoLocals
    /\ result' = NoResult

\* no wrapper call in progress, and none is started or ended by the step
NoCall ==
    /\ Idle
    /\ UNCHANGED <<pc, op, args, req, trace, calls, resp, locals, result>>

\* the documents of a collection that the filter {'_id': id} matches
Documents(collection, id) == SelectSeq(collection, LAMBDA doc : doc["_id"] = id)

\* replace_one in the place of update_one: the fields not written are dropped
UpdateOne_replacing(collection, id, set, set_on_insert) ==
    IF \E i \in 1..Len(collection) : collection[i]["_id"] = id
    THEN LET i == CHOOSE i \in 1..Len(collection) : collection[i]["_id"] = id IN
         [collection EXCEPT ![i] = set @@ ("_id" :> id)]
    ELSE Append(collection, set @@ set_on_insert @@ ("_id" :> id))

\* collection.update_one({'_id': id}, {'$set': set, '$setOnInsert': set_on_insert},
\* upsert=True): the fields of set are written to the document of that _id; when there
\* is none, one is inserted with the fields of both
UpdateOne(collection, id, set, set_on_insert) ==
    IF \E i \in 1..Len(collection) : collection[i]["_id"] = id
    THEN LET i == CHOOSE i \in 1..Len(collection) :
                    /\ collection[i]["_id"] = id
                    /\ \A j \in 1..(i - 1) : collection[j]["_id"] # id IN
         [collection EXCEPT ![i] = set @@ @]
    ELSE Append(collection, set @@ set_on_insert @@ ("_id" :> id))

\* no '$setOnInsert' in the update
NoFields == [k \in {} |-> JNull]

\* response.raise_for_status() raises HTTPError
RaisesForStatus(status) == 400 <= status /\ status < 600

\* self._make_request(url, use_user_token=True): the decoded body, None for a
\* RequestException: a network failure, a 4xx/5xx status, and a body that is empty or
\* no JSON (the JSONDecodeError of response.json() is a RequestException)
MakeRequest(answer) ==
    IF answer.kind = "exception" \/ RaisesForStatus(answer.status)
    THEN Returned(JNull)
    ELSE IF answer.body.content = "json"
    THEN Returned(answer.body.json)
    ELSE Returned(JNull)

\* fetch_and_save_salon_info(salon_id), up to the request
fetch_and_save_salon_info(S) ==
    /\ sync.at \in {"idle", "returned"}
    /\ NoCall
    /\ \E salon_id \in S :
         sync' = [fn |-> "fetch_and_save_salon_info",
                  salon_id |-> salon_id,
                  at |-> "make_request",
                  salon_info |-> JNull]
    /\ UNCHANGED <<api, aside, session, syncer, salons>>

\* the request is answered: return False for no data and for every exception
salon_info_received(A) ==
    /\ sync.at = "make_request"
    /\ NoCall
    /\ \E answer \in A :
         LET salon_info == MakeRequest(answer) IN
         sync' = IF salon_info.kind = "return" /\ Truthy(salon_info.value)
                 THEN [sync EXCEPT !.salon_info = salon_info.value, !.at = "update_one"]
                 ELSE SyncReturned(JBool(FALSE))
    /\ UNCHANGED <<api, aside, session, syncer, salons>>

\* update_doc of the salon info function
SalonInfoUpdate(f) == [salon_info |-> f.salon_info, updated_at |-> AdjustedTime]
SalonInfoOnInsert(f) == [created_at |-> AdjustedTime, salon_id |-> JNum(f.salon_id)]

\* the awaited upsert of the salon info function; an exception of the driver ends the
\* function with False
salon_info_update_one ==
    /\ sync.at = "update_one"
    /\ sync.fn = "fetch_and_save_salon_info"
    /\ NoCall
    /\ \/ /\ salons' = UpdateOne(salons, JStr(Str(sync.salon_id)),
                                 SalonInfoUpdate(sync), SalonInfoOnInsert(sync))
          /\ sync' = [sync EXCEPT !.at = "written"]
       \/ /\ sync' = SyncReturned(JBool(FALSE))
          /\ UNCHANGED salons
    /\ UNCHANGED <<api, aside, session, syncer>>

\* the upsert has come back: log the outcome and return True
salon_info_return ==
    /\ sync.at = "written"
    /\ sync.fn = "fetch_and_save_salon_info"
    /\ NoCall
    /\ sync' = SyncReturned(JBool(TRUE))
    /\ UNCHANGED <<api, aside, session, syncer, salons>>

\* fetch_and_save_services_data_for_salon(salon_id), up to the call of list_services:
\* the instance is constructed
fetch_and_save_services_data_for_salon(S) ==
    /\ sync.at \in {"idle", "returned"}
    /\ NoCall
    /\ \E salon_id \in S :
         /\ api' = SalonAPI(salon_id)
         /\ session' = "open"
         /\ sync' = [fn |-> "fetch_and_save_services_data_for_salon",
                     salon_id |-> salon_id,
                     at |-> "list_services",
                     answered |-> JNull,
                     services_response |-> JNull,
                     company_services_response |-> JNull,
                     categories_response |-> JNull]
    /\ UNCHANGED <<aside, syncer, salons>>

\* services_response = api.list_services()
sync_list_services ==
    /\ sync.at = "list_services"
    /\ list_services({JNull}, {JNull})

\* the body the platform answered the last attempt with, None when it sent no JSON
Answered(answer) ==
    IF answer.kind = "response" /\ answer.body.content = "json" THEN answer.body.json ELSE JNull

\* list_services has returned or raised: return False for a falsy response and for
\* every exception, go on otherwise ('answered' keeps what the platform sent, which
\* the function never sees)
services_received ==
    /\ sync.at = "list_services"
    /\ TakeResult
    /\ sync' = IF result.kind = "return" /\ Truthy(result.value)
               THEN [sync EXCEPT !.services_response = result.value,
                                 !.answered = Answered(resp),
                                 !.at = "list_company_services"]
               ELSE SyncReturned(JBool(FALSE))
    /\ UNCHANGED <<api, aside, session, syncer, salons>>

\* company_services_response = api.list_company_services()
sync_list_company_services ==
    /\ sync.at = "list_company_services"
    /\ list_company_services

\* list_company_services has returned or raised: YClientsAPIError is logged and the
\* response stays None, any other exception ends the function with False
company_services_received ==
    /\ sync.at = "list_company_services"
    /\ TakeResult
    /\ sync' = CASE result.kind = "return" ->
                      [sync EXCEPT !.company_services_response = result.value,
                                   !.at = "list_service_categories"]
                 [] result.kind = "YClientsAPIError" ->
                      [sync EXCEPT !.at = "list_service_categories"]
                 [] OTHER -> SyncReturned(JBool(FALSE))
    /\ UNCHANGED <<api, aside, session, syncer, salons>>

\* categories_response = api.list_service_categories()
sync_list_service_categories ==
    /\ sync.at = "list_service_categories"
    /\ list_service_categories
    /\ args'.include_services = FALSE

\* list_service_categories has returned or raised: as for list_company_services
categories_received ==
    /\ sync.at = "list_service_categories"
    /\ TakeResult
    /\ sync' = CASE result.kind = "return" ->
                      [sync EXCEPT !.categories_response = result.value,
                                   !.at = "update_one"]
                 [] result.kind = "YClientsAPIError" ->
                      [sync EXCEPT !.at = "update_one"]
                 [] OTHER -> SyncReturned(JBool(FALSE))
    /\ UNCHANGED <<api, aside, session, syncer, salons>>

\* categories_data: data.categories or data.category of the services response, the
\* separately fetched response when that is falsy
CategoriesData(services_response, categories_response) ==
    LET data == IF IsDict(services_response) /\ HasKey(services_response, "data")
                THEN services_response.d.data
                ELSE JNull
        extracted == IF IsDict(data) /\ HasKey(data, "categories") THEN data.d.categories
                     ELSE IF IsDict(data) /\ HasKey(data, "category") THEN data.d.category
                     ELSE JNull IN
    IF ~Truthy(extracted) /\ Truthy(categories_response)
    THEN categories_response
    ELSE extracted

\* update_doc['$set'] of the services function
ServicesUpdate(f) ==
    LET categories_data == CategoriesData(f.services_response, f.categories_response)
        services == [services |-> JDict([book_services |-> f.services_response,
                                         company_services |-> f.company_services_response]),
                     services_updated_at |-> AdjustedTime] IN
    IF Truthy(categories_data)
    THEN [categories |-> categories_data, categories_updated_at |-> AdjustedTime] @@ services
    ELSE services

\* the upsert of the services function; an exception of the driver ends the function
\* with False
services_update_one ==
    /\ sync.at = "update_one"
    /\ sync.fn = "fetch_and_save_services_data_for_salon"
    /\ NoCall
    /\ \/ /\ salons' = UpdateOne(salons, JStr(Str(sync.salon_id)), ServicesUpdate(sync), NoFields)
          /\ sync' = [sync EXCEPT !.at = "summary"]
       \/ /\ sync' = SyncReturned(JBool(FALSE))
          /\ UNCHANGED salons
    /\ UNCHANGED <<api, aside, session, syncer>>

\* the summary logged after the write reads services_response['data']: TypeError when
\* that is no container, or when the 'services' found in it has no len()
SummaryRaises(services_response) ==
    /\ IsDict(services_response)
    /\ HasKey(services_response, "data")
    /\ LET data == services_response.d.data
           has == Contains(data, "services") IN
       \/ has.kind # "bool"
       \/ /\ has.b
          /\ \/ ~IsDict(data)
             \/ data.d.services.t \in {"null", "bool", "num"}

\* the services function after the write: the summary, then api.close(); return True
services_close ==
    /\ sync.at = "summary"
    /\ sync.fn = "fetch_and_save_services_data_for_salon"
    /\ NoCall
    /\ IF SummaryRaises(sync.services_response)
       THEN /\ sync' = SyncReturned(JBool(FALSE))
            /\ UNCHANGED session
       ELSE /\ session' = "closed"
            /\ sync' = SyncReturned(JBool(TRUE))
    /\ UNCHANGED <<api, aside, syncer, salons>>

\* fetch_and_save_staff_data_for_salon(salon_id), up to the call of list_staff
fetch_and_save_staff_data_for_salon(S) ==
    /\ sync.at \in {"idle", "returned"}
    /\ NoCall
    /\ \E salon_id \in S :
         /\ api' = SalonAPI(salon_id)
         /\ session' = "open"
         /\ sync' = [fn |-> "fetch_and_save_staff_data_for_salon",
                     salon_id |-> salon_id,
                     at |-> "list_staff",
                     staff_response |-> JNull]
    /\ UNCHANGED <<aside, syncer, salons>>

\* staff_response = api.list_staff()
sync_list_staff ==
    /\ sync.at = "list_staff"
    /\ list_staff

\* list_staff has returned or raised
staff_received ==
    /\ sync.at = "list_staff"
    /\ TakeResult
    /\ sync' = IF result.kind = "return" /\ Truthy(result.value)
               THEN [sync EXCEPT !.staff_response = result.value, !.at = "update_one"]
               ELSE SyncReturned(JBool(FALSE))
    /\ UNCHANGED <<api, aside, session, syncer, salons>>

\* update_doc['$set'] of the staff function
StaffUpdate(f) == [staff |-> f.staff_response, staff_updated_at |-> AdjustedTime]

\* the upsert of the staff function
staff_update_one ==
    /\ sync.at = "update_one"
    /\ sync.fn = "fetch_and_save_staff_data_for_salon"
    /\ NoCall
    /\ \/ /\ salons' = UpdateOne(salons, JStr(Str(sync.salon_id)), StaffUpdate(sync), NoFields)
          /\ sync' = [sync EXCEPT !.at = "summary"]
       \/ /\ sync' = SyncReturned(JBool(FALSE))
          /\ UNCHANGED salons
    /\ UNCHANGED <<api, aside, session, syncer>>

\* the staff function after the write: api.close(); return True
staff_close ==
    /\ sync.at = "summary"
    /\ sync.fn = "fetch_and_save_staff_data_for_salon"
    /\ NoCall
    /\ session' = "closed"
    /\ sync' = SyncReturned(JBool(TRUE))
    /\ UNCHANGED <<api, aside, syncer, salons>>

\* what the platform answers to the requests of the three functions: a salon with a
\* title and one whose title is null, staff with a name and staff whose name is a list
SyncServices ==
    JList(<<JDict([id |-> JNum(1), title |-> JStr("cut"), category_id |-> JNum(9)])>>)
SyncCategories == JList(<<JDict([id |-> JNum(9), title |-> JStr("hair")])>>)
SyncOtherCategories == JList(<<JDict([id |-> JNum(8), title |-> JStr("nails")])>>)
SyncStaff == JList(<<JDict([id |-> JNum(4), name |-> JStr("Ann")])>>)
SyncOddStaff == JList(<<JDict([id |-> JNum(4), name |-> JList(<<JStr("Ann")>>)])>>)

\* a success envelope around data
Envelope(data) == JDict([success |-> JBool(TRUE), data |-> data, meta |-> JList(<<>>)])

SyncInfoBodies ==
    { NoBody,
      JsonBody(Envelope(JDict([id |-> JNum(5), title |-> JStr("Salon")]))),
      JsonBody(Envelope(JDict([id |-> JNum(5), title |-> JNull]))),
      JsonBody(JDict(EmptyD)) }

SyncBookBodies ==
    { NoBody, InvalidBody,
      JsonBody(Envelope(JDict([services |-> SyncServices, categories |-> SyncCategories]))),
      JsonBody(Envelope(JDict([services |-> JNull]))),
      JsonBody(Envelope(JDict([categories |-> SyncCategories]))),
      JsonBody(Envelope(JNull)) }

SyncCompanyBodies == { NoBody, InvalidBody, JsonBody(Envelope(SyncServices)) }

SyncCategoryBodies == { NoBody, JsonBody(Envelope(SyncOtherCategories)) }

SyncStaffBodies ==
    { NoBody, JsonBody(Envelope(SyncStaff)), JsonBody(Envelope(SyncOddStaff)),
      JsonBody(JList(<<>>)) }

\* the statuses and texts the platform answers the sync functions with
SyncStatuses == {0, 200, 429, 500}
SyncTexts == {"", "t1", "timed out"}

\* the answers to the request of fetch_and_save_salon_info
SyncInfoAnswers ==
    { a \in Responses(SyncInfoBodies) : a.status \in SyncStatuses /\ a.text \in SyncTexts }

\* the answer to an attempt of the wrapper request in progress
sync_answer ==
    /\ CASE op = "list_services" -> request_send(SyncBookBodies)
         [] op = "list_company_services" -> request_send(SyncCompanyBodies)
         [] op = "list_service_categories" -> request_send(SyncCategoryBodies)
         [] OTHER -> request_send(SyncStaffBodies)
    /\ resp'.status \in SyncStatuses
    /\ resp'.text \in SyncTexts

\* the syncer before any of its functions has run
InitSyncer ==
    /\ api = [none |-> TRUE]
    /\ session = "none"
    /\ sync = NoSync
    /\ salons = <<>>
    /\ prompts = <<>>
    /\ run = NoRun
    /\ pc = "idle"
    /\ op = "none"
    /\ args = NoArgs
    /\ req = NoReq
    /\ trace = <<>>
    /\ calls = <<>>
    /\ resp = NoResp
    /\ locals = NoLocals
    /\ result = NoResult
    /\ history = <<>>
    /\ peer = NoPeer

InitSync ==
    /\ syncer \in { [partner_token |-> "p1", user_token |-> u, salon_ids |-> <<>>] :
                      u \in {JNull, JStr("u1")} }
    /\ InitSyncer

\* the steps of the three functions and of the wrapper calls they make
SyncSteps ==
    \/ sync_list_services
    \/ services_received
    \/ sync_list_company_services
    \/ company_services_received
    \/ sync_list_service_categories
    \/ categories_received
    \/ services_update_one
    \/ services_close
    \/ sync_list_staff
    \/ staff_received
    \/ staff_update_one
    \/ staff_close
    \/ salon_info_received(SyncInfoAnswers)
    \/ salon_info_update_one
    \/ salon_info_return
    \/ sync_answer
    \/ request_sleep
    \/ services_finish

NextSync ==
    \/ fetch_and_save_salon_info(SalonIds)
    \/ fetch_and_save_services_data_for_salon(SalonIds)
    \/ fetch_and_save_staff_data_for_salon(SalonIds)
    \/ SyncSteps

SpecSync == InitSync /\ [][NextSync]_vars

-----------------------------------------------------------------------------
(* The three functions called in any order for two salons, each request either
   failing on the network or answered with 200 and a body of the expected shape *)

StoreSalonIds == {5, 6}

StoreBodies ==
    { JsonBody(Envelope(JDict([id |-> JNum(5), title |-> JStr("Salon")]))),
      JsonBody(Envelope(JDict([services |-> SyncServices, categories |-> SyncCategories]))),
      JsonBody(Envelope(SyncServices)),
      JsonBody(Envelope(SyncOtherCategories)),
      JsonBody(Envelope(SyncStaff)) }

StoreAnswer(answer) ==
    \/ answer.kind = "exception"
    \/ answer.status = 200 /\ answer.body \in StoreBodies

StoreInfoAnswers == { a \in SyncInfoAnswers : StoreAnswer(a) }

store_answer ==
    /\ sync_answer
    /\ StoreAnswer(resp')

NextStore ==
    \/ fetch_and_save_salon_info(StoreSalonIds)
    \/ salon_info_received(StoreInfoAnswers)
    \/ salon_info_update_one
    \/ salon_info_return
    \/ fetch_and_save_services_data_for_salon(StoreSalonIds)
    \/ sync_list_services
    \/ services_finish
    \/ services_received
    \/ sync_list_company_services
    \/ company_services_received
    \/ sync_list_service_categories
    \/ categories_received
    \/ services_update_one
    \/ services_close
    \/ fetch_and_save_staff_data_for_salon(StoreSalonIds)
    \/ sync_list_staff
    \/ staff_received
    \/ staff_update_one
    \/ staff_close
    \/ store_answer

InitStore ==
    /\ syncer = [partner_token |-> "p1", user_token |-> JStr("u1"), salon_ids |-> <<>>]
    /\ InitSyncer

SpecStore == InitStore /\ [][NextStore]_vars

-----------------------------------------------------------------------------
(* The simplified view: generate_simplified_data_for_salon and save_simplified_data *)

\* 'data' in v, then v['data']: the data, nothing, or the exception either step raises
DataOf(v) ==
    LET has == Contains(v, "data") IN
    IF has.kind # "bool" THEN has
    ELSE IF ~has.b THEN [kind |-> "absent"]
    ELSE IF ~IsDict(v) THEN Raised("TypeError", JStr("indices must be integers"))
    ELSE [kind |-> "data", data |-> v.d.data]

\* doc[field] when the document has the field and 'data' is in it
FieldData(salon_doc, field) ==
    IF field \in DOMAIN salon_doc THEN DataOf(salon_doc[field]) ELSE [kind |-> "absent"]

\* a dict keyed by values (a title or a name: a str, None, a number, a bool) and not
\* by field names: d maps each key to its value
JKeyed(d) == [t |-> "dict", d |-> d]

\* {key: value}, the dict display with one entry: TypeError for a key that cannot be
\* hashed
Key(key, value) ==
    IF Unhashable(key) THEN UnhashableError(key) ELSE Returned(JKeyed(key :> value))

\* simplified_data['salon_info']
SalonInfoView(salon_data) ==
    Key(Get(salon_data, "title", JStr("")),
        JDict([id |-> Get(salon_data, "id", JNull),
               phone |-> Get(salon_data, "phone", JStr("")),
               address |-> Get(salon_data, "address", JStr(""))]))

\* an element of staff_list
StaffView(staff) ==
    Key(Get(staff, "name", JStr("")), JDict([id |-> Get(staff, "id", JNull)]))

\* an element of category_list
CategoryView(category) ==
    Key(Get(category, "title", JStr("")), JDict([category_id |-> Get(category, "id", JNull)]))

\* service_info
ServiceInfo(service) ==
    JDict([id |-> Get(service, "id", JNull),
           price |-> Get(service, "price_min", JNum(0)),
           category_id |-> Get(service, "category_id", JNull)])

\* service_name_to_id: the infos of the services of each truthy title, in order. Titles
\* that are equal (==) are one key, the first of them; TypeError for a truthy title
\* that cannot be hashed
ServiceNameToId(services) ==
    LET named == SelectSeq(services, LAMBDA s : Truthy(Get(s, "title", JStr(""))))
        name(i) == Get(named[i], "title", JStr(""))
        firsts == { i \in 1..Len(named) : \A j \in 1..(i - 1) : ~PyEq(name(j), name(i)) }
        Infos(n) == SelectSeq(named, LAMBDA s : PyEq(Get(s, "title", JStr("")), n)) IN
    IF \E i \in 1..Len(named) : Unhashable(name(i))
    THEN UnhashableError(name(CHOOSE i \in 1..Len(named) :
                                 /\ Unhashable(name(i))
                                 /\ \A j \in 1..(i - 1) : ~Unhashable(name(j))))
    ELSE Returned(JKeyed([n \in { name(i) : i \in firsts } |->
                           JList([i \in 1..Len(Infos(n)) |-> ServiceInfo(Infos(n)[i])])]))

\* for item in data: item.get(...): the items, or the exception the loop raises
Items(data) ==
    LET it == Iterate(data) IN
    IF it.kind # "items" THEN it
    ELSE IF \E i \in 1..Len(it.items) : ~IsDict(it.items[i])
    THEN Raised("AttributeError", JStr("object has no attribute 'get'"))
    ELSE it

\* [View(item) for item in items], given the outcome of View for each item: the list
\* of the views, or the first exception
Views(outcomes) ==
    IF \E i \in 1..Len(outcomes) : outcomes[i].kind # "return"
    THEN outcomes[CHOOSE i \in 1..Len(outcomes) :
                     /\ outcomes[i].kind # "return"
                     /\ \A j \in 1..(i - 1) : outcomes[j].kind = "return"]
    ELSE Returned(JList([i \in 1..Len(outcomes) |-> outcomes[i].value]))

\* the body of generate_simplified_data_for_salon for the document found: the view,
\* {} when any step raises
SimplifiedData(salon_doc, salon_id) ==
    LET info == FieldData(salon_doc, "salon_info")
        staff == FieldData(salon_doc, "staff")
        staff_items == IF staff.kind = "data" THEN Items(staff.data) ELSE staff
        company == IF "services" \in DOMAIN salon_doc
                      /\ HasKey(salon_doc.services, "company_services")
                   THEN DataOf(salon_doc.services.d.company_services)
                   ELSE [kind |-> "absent"]
        company_items == IF company.kind = "data" THEN Items(company.data) ELSE company
        categories == FieldData(salon_doc, "categories")
        category_items == IF categories.kind = "data" THEN Items(categories.data)
                          ELSE categories
        Fine(x) == x.kind \in {"absent", "data", "items"}
        Attribute(x) == Raised("AttributeError", JStr("object has no attribute 'get'"))
        salon_info == IF info.kind # "data" THEN info
                      ELSE IF ~IsDict(info.data) THEN Attribute(info.data)
                      ELSE SalonInfoView(info.data)
        staff_list == IF staff_items.kind # "items" THEN staff_items
                      ELSE Views([i \in 1..Len(staff_items.items) |->
                                    StaffView(staff_items.items[i])])
        service_name_to_id == IF company_items.kind # "items" THEN company_items
                              ELSE ServiceNameToId(company_items.items)
        category_list == IF category_items.kind # "items" THEN category_items
                         ELSE Views([i \in 1..Len(category_items.items) |->
                                       CategoryView(category_items.items[i])])
        Built(x) == x.kind \in {"absent", "return"} IN
    IF ~(Built(salon_info) /\ Built(staff_list) /\ Built(service_name_to_id)
         /\ Built(category_list))
    THEN JDict(EmptyD)
    ELSE JDict(
           (IF salon_info.kind = "return" THEN "salon_info" :> salon_info.value
            ELSE NoFields)
           @@ (IF staff_list.kind = "return" THEN "staff_name_to_id" :> staff_list.value
               ELSE NoFields)
           @@ (IF category_list.kind = "return"
               THEN "category_name_to_id" :> category_list.value
               ELSE NoFields)
           @@ [_id |-> JStr(Str(salon_id)),
               id |-> JStr(Str(salon_id)),
               service_name_to_id |->
                  IF service_name_to_id.kind = "return" THEN service_name_to_id.value
                  ELSE JDict(EmptyD)])

\* generate_simplified_data_for_salon(salon_id), up to the awaited find_one
generate_simplified_data_for_salon(S) ==
    /\ sync.at \in {"idle", "returned"}
    /\ NoCall
    /\ \E salon_id \in S :
         sync' = [fn |-> "generate_simplified_data_for_salon",
                  salon_id |-> salon_id,
                  at |-> "find_one"]
    /\ UNCHANGED <<api, aside, session, syncer, salons>>

\* what generate_simplified_data_for_salon returns ('found' tells whether a document
\* was read)
Generated(f, found, v) ==
    [fn |-> f.fn, salon_id |-> f.salon_id, at |-> "returned", found |-> found, value |-> v]

\* salons_collection.find_one({'_id': str(salon_id)}): the document read (salon_doc
\* holds it, or nothing for None); an exception of the driver ends the function
\* with {}
generate_find_one ==
    /\ sync.at = "find_one"
    /\ NoCall
    /\ \/ sync' = [fn |-> sync.fn, salon_id |-> sync.salon_id, at |-> "found",
                   salon_doc |-> Documents(salons, JStr(Str(sync.salon_id)))]
       \/ sync' = Generated(sync, FALSE, JDict(EmptyD))
    /\ UNCHANGED <<api, aside, session, syncer, salons>>

\* find_one has come back: {} for no document, the view of the document otherwise
generate_return ==
    /\ sync.at = "found"
    /\ NoCall
    /\ sync' = IF sync.salon_doc = <<>>
               THEN Generated(sync, FALSE, JDict(EmptyD))
               ELSE Generated(sync, TRUE, SimplifiedData(sync.salon_doc[1], sync.salon_id))
    /\ UNCHANGED <<api, aside, session, syncer, salons>>

\* update_doc of save_simplified_data
PromptsUpdate(simplified_data) == ("updated_at" :> AdjustedTime) @@ simplified_data.d
PromptsOnInsert == [created_at |-> AdjustedTime]

\* what save_simplified_data returns
Saved(b) == [fn |-> "save_simplified_data", at |-> "returned", value |-> JBool(b)]

\* save_simplified_data(simplified_data), up to the awaited upsert: False for an
\* empty view, and for one that is no mapping ({**simplified_data, ...} raises)
save_simplified_data(D) ==
    /\ sync.at \in {"idle", "returned"}
    /\ NoCall
    /\ \E simplified_data \in D :
         sync' = IF ~Truthy(simplified_data) \/ ~IsDict(simplified_data)
                 THEN Saved(FALSE)
                 ELSE [fn |-> "save_simplified_data", at |-> "update_one",
                       simplified_data |-> simplified_data]
    /\ UNCHANGED <<api, aside, session, syncer, salons>>

\* the awaited upsert into prompts; an exception of the driver ends the function
\* with False
save_update_one ==
    /\ sync.at = "update_one"
    /\ sync.fn = "save_simplified_data"
    /\ NoCall
    /\ \/ /\ prompts' = UpdateOne(prompts, Get(sync.simplified_data, "_id", JNull),
                                  PromptsUpdate(sync.simplified_data), PromptsOnInsert)
          /\ sync' = [sync EXCEPT !.at = "written"]
       \/ /\ sync' = Saved(FALSE)
          /\ UNCHANGED prompts
    /\ UNCHANGED <<api, history, peer, run, session, syncer, salons>>

\* the upsert has come back: log the outcome and return True
save_return ==
    /\ sync.at = "written"
    /\ sync.fn = "save_simplified_data"
    /\ NoCall
    /\ sync' = Saved(TRUE)
    /\ UNCHANGED <<api, aside, session, syncer, salons>>

-----------------------------------------------------------------------------
(* run_full_sync: the four phases, each over all salons of the profile *)

Phases == 1..4

\* the unit in progress: the phase and the salon it is for
RunSalon == syncer.salon_ids[run.i]

\* run_full_sync(): return False when no salon is configured, start phase 1 otherwise
\* ('attempted' lists the units finished so far with their success)
run_full_sync ==
    /\ run.at = "idle"
    /\ sync.at = "idle"
    /\ NoCall
    /\ run' = IF syncer.salon_ids = <<>>
              THEN [at |-> "returned", phase |-> 0, i |-> 0, overall_success |-> FALSE,
                    simplified_data |-> JNull, attempted |-> <<>>]
              ELSE [at |-> "unit", phase |-> 1, i |-> 1, overall_success |-> TRUE,
                    simplified_data |-> JNull, attempted |-> <<>>]
    /\ UNCHANGED <<api, history, peer, prompts, session, syncer, sync, salons>>

\* a failed unit ends its phase: break in the place of going on
Finished_breaking(r, success) ==
    LET done == [r EXCEPT !.overall_success = @ /\ success,
                          !.simplified_data = JNull,
                          !.attempted = Append(@, [phase |-> r.phase,
                                                   salon_id |-> syncer.salon_ids[r.i],
                                                   success |-> success])] IN
    IF r.i < Len(syncer.salon_ids) /\ success THEN [done EXCEPT !.at = "unit", !.i = @ + 1]
    ELSE IF r.phase < 4 THEN [done EXCEPT !.at = "unit", !.phase = @ + 1, !.i = 1]
    ELSE [done EXCEPT !.at = "returned"]

\* the unit in progress has ended with success or not: overall_success is updated,
\* the loop goes on to the next salon, the next phase, or 'return overall_success'
Finished(r, success) ==
    LET done == [r EXCEPT !.overall_success = @ /\ success,
                          !.simplified_data = JNull,
                          !.attempted = Append(@, [phase |-> r.phase,
                                                   salon_id |-> syncer.salon_ids[r.i],
                                                   success |-> success])] IN
    IF r.i < Len(syncer.salon_ids) THEN [done EXCEPT !.at = "unit", !.i = @ + 1]
    ELSE IF r.phase < 4 THEN [done EXCEPT !.at = "unit", !.phase = @ + 1, !.i = 1]
    ELSE [done EXCEPT !.at = "returned"]

\* success = await self.fetch_and_save_salon_info(salon_id)
run_salon_info ==
    /\ run.at = "unit" /\ run.phase = 1
    /\ sync.at = "idle"
    /\ fetch_and_save_salon_info({RunSalon})

\* success = await self.fetch_and_save_services_data_for_salon(salon_id)
run_services ==
    /\ run.at = "unit" /\ run.phase = 2
    /\ sync.at = "idle"
    /\ fetch_and_save_services_data_for_salon({RunSalon})

\* success = await self.fetch_and_save_staff_data_for_salon(salon_id)
run_staff ==
    /\ run.at = "unit" /\ run.phase = 3
    /\ sync.at = "idle"
    /\ fetch_and_save_staff_data_for_salon({RunSalon})

\* the function of a unit of phase 1, 2 or 3 has returned
run_fetched ==
    /\ run.at = "unit" /\ run.phase \in 1..3
    /\ sync.at = "returned"
    /\ NoCall
    /\ run' = Finished(run, Truthy(sync.value))
    /\ sync' = NoSync
    /\ UNCHANGED <<api, history, peer, prompts, session, syncer, salons>>

\* simplified_data = await self.generate_simplified_data_for_salon(salon_id)
run_generate ==
    /\ run.at = "unit" /\ run.phase = 4
    /\ sync.at = "idle"
    /\ generate_simplified_data_for_salon({RunSalon})

\* if simplified_data: go on to save it; else the unit has failed
run_generated ==
    /\ run.at = "unit" /\ run.phase = 4
    /\ sync.at = "returned"
    /\ NoCall
    /\ run' = IF Truthy(sync.value)
              THEN [run EXCEPT !.at = "save", !.simplified_data = sync.value]
              ELSE Finished(run, FALSE)
    /\ sync' = NoSync
    /\ UNCHANGED <<api, history, peer, prompts, session, syncer, salons>>

\* success = await self.save_simplified_data(simplified_data)
run_save ==
    /\ run.at = "save"
    /\ sync.at = "idle"
    /\ save_simplified_data({run.simplified_data})

\* save_simplified_data has returned
run_saved ==
    /\ run.at = "save"
    /\ sync.at = "returned"
    /\ NoCall
    /\ run' = Finished(run, Truthy(sync.value))
    /\ sync' = NoSync
    /\ UNCHANGED <<api, history, peer, prompts, session, syncer, salons>>

\* self.salon_ids of the profile
RunSalonIds == { <<>>, <<5>>, <<5, 6>> }

InitRun ==
    /\ syncer \in { [partner_token |-> "p1", user_token |-> JStr("u1"), salon_ids |-> ids] :
                      ids \in RunSalonIds }
    /\ InitSyncer

NextRun ==
    \/ run_full_sync
    \/ run_salon_info
    \/ salon_info_received(SyncInfoAnswers)
    \/ salon_info_update_one
    \/ salon_info_return
    \/ run_services
    \/ sync_list_services
    \/ services_finish
    \/ services_received
    \/ sync_list_company_services
    \/ company_services_received
    \/ sync_list_service_categories
    \/ categories_received
    \/ services_update_one
    \/ services_close
    \/ run_staff
    \/ sync_list_staff
    \/ staff_received
    \/ staff_update_one
    \/ staff_close
    \/ run_fetched
    \/ run_generate
    \/ generate_find_one
    \/ generate_return
    \/ run_generated
    \/ run_save
    \/ save_update_one
    \/ save_return
    \/ run_saved
    \/ sync_answer
    \/ request_sleep

SpecRun == InitRun /\ [][NextRun]_vars

-----------------------------------------------------------------------------
(* Readings of the trace *)

RequestIdx(tr) == { i \in 1..Len(tr) : tr[i].e = "request" }
SleepIdx(tr) == { i \in 1..Len(tr) : tr[i].e = "sleep" }
NumRequests(tr) == Cardinality(RequestIdx(tr))
NumSleeps(tr) == Cardinality(SleepIdx(tr))

\* the delays of the sleeps of tr, in order
RECURSIVE SleepsOf(_)
SleepsOf(tr) ==
    IF tr = <<>> THEN <<>>
    ELSE (IF Head(tr).e = "sleep" THEN <<Head(tr).d>> ELSE <<>>) \o SleepsOf(Tail(tr))

InRequest == pc \in {"request", "sleep"}

\* the instance was constructed with a usable (non-empty) user token
HasUserToken(a) == a.user_token # JNull /\ a.user_token # JStr("")

-----------------------------------------------------------------------------
(* C1 *)

\* what is left of the retry budget: it shrinks with every step inside _request
RetryMeasure ==
    IF InRequest
    THEN 2 * (api.max_retries + 1 - NumRequests(trace)) + (IF pc = "sleep" THEN 1 ELSE 0)
    ELSE 0

C1_State ==
    /\ NumRequests(trace) <= api.max_retries + 1
    /\ NumSleeps(trace) <= api.max_retries
    /\ pc = "sleep" => resp.status = 429
    /\ (pc = "done" /\ resp.kind = "response" /\ resp.status = 429) =>
          /\ NumSleeps(trace) = api.max_retries
          /\ NumRequests(trace) = api.max_retries + 1
          /\ result = Raised("YClientsAPIError", JStr("YClients error 429: " \o resp.text))
    /\ api.max_retries = 0 => NumSleeps(trace) = 0 /\ pc # "sleep"
    /\ InRequest => RetryMeasure > 0

\* C1: one _request call issues at most max_retries + 1 HTTP requests and sleeps at
\* most max_retries times; a 429 is retried only while retries are left, and the 429
\* that arrives once they are used up is raised as YClientsAPIError "YClients error
\* 429: <text of that response>"; with max_retries = 0 the first 429 is raised without
\* a sleep. The call terminates: every step inside _request strictly decreases a
\* measure that is bounded below.
C1_RetryBounded ==
    /\ []C1_State
    /\ [][InRequest => RetryMeasure' < RetryMeasure]_vars

\* a call that used all of its 3 retries and raised the fourth 429
C1_Witness ==
    /\ pc = "done"
    /\ api.max_retries = 3
    /\ NumRequests(trace) = 4
    /\ NumSleeps(trace) = 3
    /\ resp.kind = "response" /\ resp.status = 429
    /\ result.kind = "YClientsAPIError"

-----------------------------------------------------------------------------
(* C2 *)

\* C2: the k-th sleep of a _request call lasts backoff_factor * 2^(k-1); every sleep
\* directly follows an attempt answered 429 and is directly followed by the retry
\* (the next attempt, or the loop about to make it); and three 429s then a 2xx with
\* max_retries = 3 return the body after sleeps of exactly b, 2b and 4b.
C2_BackoffDelays ==
    /\ \A i \in SleepIdx(trace) :
         /\ i > 1
         /\ trace[i - 1].e = "request"
         /\ trace[i - 1].answer = "response"
         /\ trace[i - 1].status = 429
         /\ trace[i].d = api.backoff_factor * 2 ^ (Cardinality({ j \in SleepIdx(trace) : j <= i }) - 1)
         /\ IF i < Len(trace) THEN trace[i + 1].e = "request" ELSE pc = "request"
    /\ (/\ pc = "done"
        /\ api.max_retries = 3
        /\ NumRequests(trace) = 4
        /\ resp.kind = "response"
        /\ IsSuccessStatus(resp.status)
        /\ resp.body.content = "json"
        /\ ~IsPlatformError(resp.body.json))
       => /\ SleepsOf(trace) = <<api.backoff_factor, 2 * api.backoff_factor, 4 * api.backoff_factor>>
          /\ result = Returned(resp.body.json)

\* 429, 429, 429, 200 with max_retries = 3: the body is returned after three sleeps
C2_Witness ==
    /\ pc = "done"
    /\ api.max_retries = 3
    /\ Len(trace) = 7
    /\ \A i \in {1, 3, 5} : trace[i].e = "request" /\ trace[i].status = 429
    /\ \A i \in {2, 4, 6} : trace[i].e = "sleep"
    /\ trace[7].e = "request" /\ trace[7].status = 200
    /\ result.kind = "return"

-----------------------------------------------------------------------------
(* C3 *)

\* the last attempt failed at the network level or with a non-2xx status other than 429
FailedUnretryable ==
    /\ resp.kind \in {"exception", "response"}
    /\ \/ resp.kind = "exception"
       \/ resp.status # 429 /\ ~(200 <= resp.status /\ resp.status <= 299)

\* C3: only 429 is retried. An attempt that is followed by anything (a sleep, another
\* attempt) was answered 429; an attempt that ends in a network exception or a non-2xx
\* status other than 429 is the last event of the call, which raises YClientsAPIError
\* at once, whatever retries are left and whatever 429s came before.
C3_Only429Retried ==
    /\ \A i \in RequestIdx(trace) :
         i < Len(trace) => trace[i].answer = "response" /\ trace[i].status = 429
    /\ (InRequest /\ trace # <<>>) => resp.kind = "response" /\ resp.status = 429
    /\ (trace # <<>> /\ FailedUnretryable) =>
          /\ pc = "done"
          /\ trace[Len(trace)].e = "request"
          /\ NumSleeps(trace) = NumRequests(trace) - 1
          /\ result.kind = "YClientsAPIError"

\* a 500 after one 429 retry, with retries still unused
C3_Witness ==
    /\ pc = "done"
    /\ resp.kind = "response" /\ resp.status = 500
    /\ NumRequests(trace) = 2
    /\ req.retries = 1
    /\ api.max_retries = 3
    /\ result.kind = "YClientsAPIError"

-----------------------------------------------------------------------------
(* C4 *)

\* C4: a 2xx response whose body decodes makes _request raise YClientsAPIError exactly
\* when the decoded body is a mapping whose success field is the boolean false, and the
\* error then carries the platform's payload (the body's meta when it is non-empty,
\* else the body); in every other case the decoded body is returned unchanged, an
\* empty body as the empty mapping.
C4_SuccessFalseRaises ==
    (/\ pc = "done"
     /\ resp.kind = "response"
     /\ 200 <= resp.status /\ resp.status <= 299
     /\ resp.body.content # "invalid")
    => LET data == IF resp.body.content = "empty" THEN JDict(EmptyD) ELSE resp.body.json
           flagged == /\ data.t = "dict"
                      /\ "success" \in DOMAIN data.d
                      /\ data.d.success = JBool(FALSE)
           payload == IF "meta" \in DOMAIN data.d /\ Truthy(data.d.meta)
                      THEN data.d.meta ELSE data
       IN /\ result.kind = "YClientsAPIError" <=> flagged
          /\ flagged => result.payload = payload
          /\ ~flagged => result = Returned(data)

\* a 2xx body {"success": 0, ...}: falsy but not false, so it is returned
C4_Witness ==
    /\ pc = "done"
    /\ resp.kind = "response" /\ resp.status = 200
    /\ resp.body = JsonBody(JDict([success |-> JNum(0), data |-> JList(<<>>)]))
    /\ result = Returned(resp.body.json)

-----------------------------------------------------------------------------
(* C5 *)

\* the Authorization value the claim gives for a call with this elevated flag
ExpectedAuth(a, elevated) ==
    IF elevated /\ HasUserToken(a)
    THEN "Bearer " \o a.partner_token \o ", User " \o a.user_token.s
    ELSE "Bearer " \o a.partner_token

\* C5: every HTTP attempt of a call, retries included, carries Authorization
\* "Bearer {partner_token}, User {user_token}" exactly when the call's use_user_token
\* flag is set and the instance has a non-empty user token, and "Bearer
\* {partner_token}" in every other case.
C5_AuthorizationHeader ==
    \A i \in RequestIdx(trace) :
        trace[i].auth = ExpectedAuth(api, calls[Len(calls)].use_user_token)

\* an elevated call retried after a 429, both attempts with the two-credential header
C5_Witness ==
    /\ NumRequests(trace) >= 2
    /\ calls[1].use_user_token
    /\ api.user_token = JStr("u1")
    /\ trace[1].auth = "Bearer " \o api.partner_token \o ", User u1"
    /\ trace[Len(trace)].e = "request"
    /\ trace[Len(trace)].auth = trace[1].auth

-----------------------------------------------------------------------------
(* C6 *)

\* the operations the platform serves only with elevated access
ElevatedOps ==
    { "list_company_services", "list_service_categories", "get_client",
      "search_clients", "find_client", "client_visits" }

\* C6: an operation that requires elevated access, called on an instance constructed
\* without a user_token, fails with an error: it never returns a result.
C6_ElevatedFailsWithoutUserToken ==
    (pc = "done" /\ op \in ElevatedOps /\ api.user_token = JNull) => result.kind # "return"

-----------------------------------------------------------------------------
(* C7 *)

\* a str without any digit (the empty str included)
HasNoDigit(phone) ==
    phone.t = "str" /\ \A i \in 1..Len(phone.c) : ~IsDigit(phone.c[i])

RaisedBeforeAnyRequest ==
    /\ pc = "done"
    /\ result.kind = "ValueError"
    /\ trace = <<>>
    /\ calls = <<>>

\* C7: client_visits with neither phone nor client_id, client_visits with only a phone
\* that has no digit, and get_client_last_visit_info with an empty phone or a phone
\* without a digit raise ValueError before any HTTP request is issued (no attempt, no
\* sleep, no _request call).
C7_ValidationBeforeRequest ==
    /\ (op = "client_visits" /\ ~Truthy(args.phone) /\ ~Truthy(args.client_id))
          => RaisedBeforeAnyRequest
    /\ (op = "client_visits" /\ Truthy(args.phone) /\ HasNoDigit(args.phone)
          /\ ~Truthy(args.client_id))
          => RaisedBeforeAnyRequest
    /\ (op = "get_client_last_visit_info" /\ HasNoDigit(args.phone))
          => RaisedBeforeAnyRequest

\* get_client_last_visit_info("n/a") has raised ValueError with nothing sent
C7_Witness ==
    /\ op = "get_client_last_visit_info"
    /\ args.phone = JChars(P_no_digit)
    /\ pc = "done"
    /\ result.kind = "ValueError"
    /\ trace = <<>>

-----------------------------------------------------------------------------
(* C8 *)

\* C8: for a phone with at least one digit _normalize_phone returns exactly the digit
\* characters of the input in their original order (the k-th digit of the input is the
\* k-th character of the result, and the result has no other character); for a phone
\* without a digit it raises ValueError.
C8_NormalizeKeepsDigits ==
    (op = "_normalize_phone" /\ pc = "done") =>
       LET s == args.phone.c
           pos == { i \in 1..Len(s) : s[i] \in DigitChars } IN
       IF pos = {}
       THEN result.kind = "ValueError"
       ELSE /\ result.kind = "return"
            /\ Len(result.value.c) = Cardinality(pos)
            /\ \A i \in pos : result.value.c[Cardinality({ j \in pos : j <= i })] = s[i]

\* "+7 0" has been normalised to "70"
C8_Witness ==
    /\ op = "_normalize_phone"
    /\ pc = "done"
    /\ args.phone = JChars(<<"+", "7", " ", "0">>)
    /\ result = Returned(JChars(<<"7", "0">>))

-----------------------------------------------------------------------------
(* C9 *)

\* the digits of a str, in order
DigitsOf(c) == SelectSeq(c, IsDigit)

\* the normalized stored phone of a candidate ('' when it has none)
StoredDigits(client) ==
    IF "phone" \in DOMAIN client.d /\ client.d.phone.t = "str"
    THEN DigitsOf(client.d.phone.c)
    ELSE <<>>

\* b is a suffix of a
IsSuffix(a, b) == \E k \in 0..Len(a) : SubSeq(a, k + 1, Len(a)) = b

\* the candidate list of the search response a completed matching ran over
MatchedOver ==
    IF /\ locals.response.t = "dict"
       /\ "data" \in DOMAIN locals.response.d
       /\ locals.response.d.data.t = "list"
    THEN locals.response.d.data.l
    ELSE <<>>

C9_Stored79123456789 == JDict([id |-> JNum(7), phone |-> JChars(P_full)])

\* C9: when _find_client_by_phone completes its matching, the candidates it accepted
\* are exactly those whose normalized stored phone equals the normalized input, or
\* ends with it while the normalized input has at least 7 digits. For the stored phone
\* 79123456789 the inputs 79123456789, +7 (912) 345-67-89 and 9123456789 match; 1768
\* and 6789 (a suffix shorter than 7 digits) do not.
C9_AcceptanceRule ==
    (/\ op = "_find_client_by_phone"
     /\ pc = "done"
     /\ result.kind = "return")
    => LET input == DigitsOf(args.phone.c)
           Rule(client) ==
              \/ StoredDigits(client) = input
              \/ IsSuffix(StoredDigits(client), input) /\ Len(input) >= 7
       IN /\ locals.exact_matches = SelectSeq(MatchedOver, Rule)
          /\ MatchedOver = <<C9_Stored79123456789>> =>
                /\ args.phone.c \in {P_full, P_formatted, P_local}
                      => result = Returned(C9_Stored79123456789)
                /\ args.phone.c \in {P_1768, P_6789} => result = Returned(JNull)

\* 9123456789 has matched the stored 79123456789 by the suffix rule
C9_Witness ==
    /\ op = "_find_client_by_phone"
    /\ pc = "done"
    /\ args.phone = JChars(P_local)
    /\ MatchedOver = <<JDict([id |-> JNum(11)]), C9_Stored79123456789>>
    /\ locals.exact_matches = <<C9_Stored79123456789>>
    /\ result = Returned(C9_Stored79123456789)

-----------------------------------------------------------------------------
(* C10 *)

\* the last 7 characters of c when it has 7 or more, else c
C10_SearchKey(c) ==
    IF Len(c) >= 7 THEN [i \in 1..7 |-> c[Len(c) - 7 + i]] ELSE c

\* C10: for an input with a digit, _find_client_by_phone makes exactly one
\* client-search call (POST /company/{company_id}/clients/search), whose only filter
\* is the phone filter holding the last 7 digits of the normalized input, or all of it
\* when it is shorter; every HTTP attempt of that call (one, plus one per 429 retried)
\* sends that same request.
C10_OneSearchWithLast7 ==
    (op = "_find_client_by_phone" /\ ~HasNoDigit(args.phone)) =>
       /\ Len(calls) = 1
       /\ calls[1].method = "POST"
       /\ calls[1].url = BASE_URL \o "/company/" \o ToString(api.company_id) \o "/clients/search"
       /\ calls[1].json.d.filters
             = JList(<<JDict([phone |-> JChars(C10_SearchKey(DigitsOf(args.phone.c)))])>>)
       /\ \A i \in RequestIdx(trace) :
             trace[i].url = calls[1].url /\ trace[i].json = calls[1].json
       /\ pc \in {"resume", "done"} => NumRequests(trace) = NumSleeps(trace) + 1

\* "+7 (912) 345-67-89" has been searched for once, as "3456789"
C10_Witness ==
    /\ op = "_find_client_by_phone"
    /\ pc = "done"
    /\ args.phone = JChars(P_formatted)
    /\ Len(calls) = 1
    /\ calls[1].json.d.filters = JList(<<JDict([phone |-> JChars(P_seven)])>>)
    /\ NumRequests(trace) = 1

-----------------------------------------------------------------------------
(* C11 *)

\* the candidate's stored phone is one the matching loop can normalize: missing, empty,
\* None, or a str with a digit
C11_Normalizable(client) ==
    \/ "phone" \notin DOMAIN client.d
    \/ ~Truthy(client.d.phone)
    \/ client.d.phone.t = "str" /\ DigitsOf(client.d.phone.c) # <<>>

\* the search call has returned and _find_client_by_phone has run to its end
C11_SearchReturned ==
    /\ op = "_find_client_by_phone"
    /\ pc = "done"
    /\ "exact_matches" \in DOMAIN locals

\* C11: once the search call has returned, over candidates whose stored phones can be
\* normalized, _find_client_by_phone returns the accepted candidate that comes first in
\* the order of the search response, whether it passed the exact or the suffix rule;
\* when no candidate is accepted, or the response has no data (no data key, data null
\* or empty, a body that is not a mapping), it returns None and raises nothing.
C11_FirstAcceptedOrNone ==
    (/\ C11_SearchReturned
     /\ \A i \in 1..Len(MatchedOver) : C11_Normalizable(MatchedOver[i]))
    => LET input == DigitsOf(args.phone.c)
           Rule(client) ==
              \/ StoredDigits(client) = input
              \/ IsSuffix(StoredDigits(client), input) /\ Len(input) >= 7
           accepted == { i \in 1..Len(MatchedOver) : Rule(MatchedOver[i]) }
       IN IF accepted = {}
          THEN result = Returned(JNull)
          ELSE \E i \in accepted :
                  /\ \A j \in accepted : i <= j
                  /\ result = Returned(MatchedOver[i])

\* 9123456789 looked up among [79123456789, 9123456789]: both are accepted, the first
\* by the suffix rule and the second by the exact rule, and the first is returned
C11_Witness ==
    /\ C11_SearchReturned
    /\ args.phone = JChars(P_local)
    /\ MatchedOver = <<C9_Stored79123456789, JDict([id |-> JNum(15), phone |-> JChars(P_local)])>>
    /\ Len(locals.exact_matches) = 2
    /\ result = Returned(C9_Stored79123456789)

-----------------------------------------------------------------------------
(* C12 *)

\* get_client_last_visit_info has run to its end on a visit-history response
C12_VisitsReturned ==
    /\ op = "get_client_last_visit_info"
    /\ pc = "done"
    /\ "phase" \in DOMAIN locals
    /\ locals.phase = "visits"
    /\ locals.response # JNull

\* the records of the visit-history response (none when it has no records list)
C12_Records ==
    IF /\ locals.response.t = "dict"
       /\ "data" \in DOMAIN locals.response.d
       /\ locals.response.d.data.t = "dict"
       /\ "records" \in DOMAIN locals.response.d.data.d
       /\ locals.response.d.data.d.records.t = "list"
    THEN locals.response.d.data.d.records.l
    ELSE <<>>

\* the record's date is a string, or missing
C12_Dated(record) == "date" \in DOMAIN record.d => record.d.date.t = "str"

\* the position of the record's date in ascending date order, a missing date first
C12_Rank(record) == IF "date" \in DOMAIN record.d THEN DateRank(record.d.date) ELSE 0

\* the record's staff object has both an id and a name populated
C12_UsableStaff(record) ==
    /\ "staff" \in DOMAIN record.d
    /\ record.d.staff.t = "dict"
    /\ "id" \in DOMAIN record.d.staff.d /\ Truthy(record.d.staff.d.id)
    /\ "name" \in DOMAIN record.d.staff.d /\ Truthy(record.d.staff.d.name)

\* C12: over visit records whose dates are strings or missing, get_client_last_visit_info
\* returns the data of the record that comes first, among the records whose staff has
\* both id and name, in the order by date descending in which a missing date comes
\* after every date and equal dates keep their response order; records without usable
\* staff are skipped. For [{2024-01-01, staff null}, {2024-03-01, staff 5/A},
\* {2024-02-01, staff 6/B}] the result is staff id 5.
C12_LatestUsableStaff ==
    (/\ C12_VisitsReturned
     /\ \A i \in 1..Len(C12_Records) : C12_Dated(C12_Records[i]))
    => LET R == C12_Records
           usable == { i \in 1..Len(R) : C12_UsableStaff(R[i]) }
           Before(i, j) ==
              \/ C12_Rank(R[i]) > C12_Rank(R[j])
              \/ C12_Rank(R[i]) = C12_Rank(R[j]) /\ i < j
       IN /\ usable # {} =>
               \E i \in usable :
                  /\ \A j \in usable \ {i} : Before(i, j)
                  /\ result.kind = "return"
                  /\ result.value.t = "dict"
                  /\ result.value.d.id = R[i].d.staff.d.id
                  /\ result.value.d.name = R[i].d.staff.d.name
                  /\ result.value.d.last_visit_id = R[i].d.id
                  /\ result.value.d.last_visit_date
                        = (IF "date" \in DOMAIN R[i].d THEN R[i].d.date ELSE JStr(""))
          /\ R = ExampleRecords => result.value.d.id = JNum(5)

\* the three example records have resolved to staff 5, the visit of 2024-03-01
C12_Witness ==
    /\ C12_VisitsReturned
    /\ C12_Records = ExampleRecords
    /\ result.kind = "return"
    /\ result.value.d.id = JNum(5)
    /\ result.value.d.last_visit_date = JStr("2024-03-01")

-----------------------------------------------------------------------------
(* C13 *)

\* the candidates of the client-search response that was answered last
C13_Candidates ==
    IF /\ resp.kind = "response"
       /\ resp.body.content = "json"
       /\ resp.body.json.t = "dict"
       /\ "data" \in DOMAIN resp.body.json.d
       /\ resp.body.json.d.data.t = "list"
    THEN resp.body.json.d.data.l
    ELSE <<>>

\* the search call of get_client_last_visit_info has returned a response in which no
\* candidate passes the acceptance rule, all stored phones being normalizable
C13_NoClient ==
    /\ op = "get_client_last_visit_info"
    /\ pc = "done"
    /\ Len(calls) = 1
    /\ resp.kind = "response"
    /\ 200 <= resp.status /\ resp.status <= 299
    /\ resp.body.content # "invalid"
    /\ resp.body.content = "json" =>
          ~(resp.body.json.t = "dict" /\ "success" \in DOMAIN resp.body.json.d
              /\ resp.body.json.d.success = JBool(FALSE))
    /\ LET input == DigitsOf(args.phone.c) IN
       \A i \in 1..Len(C13_Candidates) :
          /\ C11_Normalizable(C13_Candidates[i])
          /\ StoredDigits(C13_Candidates[i]) # input
          /\ ~(IsSuffix(StoredDigits(C13_Candidates[i]), input) /\ Len(input) >= 7)

\* the visit-history response holds no records: no data, or data without a non-empty
\* records list
C13_NoRecords ==
    /\ C12_VisitsReturned
    /\ \/ locals.response.t # "dict"
       \/ "data" \notin DOMAIN locals.response.d
       \/ /\ locals.response.d.data.t = "dict"
          /\ \/ "records" \notin DOMAIN locals.response.d.data.d
             \/ locals.response.d.data.d.records = JList(<<>>)

\* the visit-history response holds records, none of them with usable staff
C13_NoUsableStaff ==
    /\ C12_VisitsReturned
    /\ C12_Records # <<>>
    /\ \A i \in 1..Len(C12_Records) :
          C12_Dated(C12_Records[i]) /\ ~C12_UsableStaff(C12_Records[i])

\* C13: get_client_last_visit_info returns None and raises nothing when the phone
\* resolves to no client (and then no visit-history request is made), when the client
\* has no visit records, and when no visit record (dates being strings or missing)
\* carries a staff object with both id and name populated.
C13_NoneWhenNothingFound ==
    /\ C13_NoClient => result = Returned(JNull)
    /\ C13_NoRecords => result = Returned(JNull)
    /\ C13_NoUsableStaff => result = Returned(JNull)

\* two visit records, one with staff null and one whose staff has no name: None
C13_Witness ==
    /\ C13_NoUsableStaff
    /\ Len(C12_Records) = 2
    /\ C12_Records[1].d.staff = JNull
    /\ C12_Records[2].d.staff = JDict([id |-> JNum(8)])
    /\ result = Returned(JNull)

\* the phone has resolved to no client among two candidates
C13_WitnessNoClient ==
    /\ C13_NoClient
    /\ Len(C13_Candidates) = 2
    /\ result = Returned(JNull)

\* the client has an empty list of visit records
C13_WitnessNoRecords ==
    /\ C13_NoRecords
    /\ locals.response.t = "dict"
    /\ "data" \in DOMAIN locals.response.d
    /\ result = Returned(JNull)

-----------------------------------------------------------------------------
(* C15 *)

\* list_branches has run to its end on a response _request returned
C15_BranchesReturned ==
    /\ op = "list_branches"
    /\ pc = "done"
    /\ resp.kind = "response"
    /\ "response" \in DOMAIN locals
    /\ result.kind # "YClientsAPIError"
    /\ result.kind # "JSONDecodeError"

\* the response is a mapping with a data key
C15_Wrapped == locals.response.t = "dict" /\ "data" \in DOMAIN locals.response.d

\* the response's list of entries: its data, or the response itself when it is a list
C15_Entries ==
    IF C15_Wrapped THEN locals.response.d.data ELSE locals.response

\* the entry is not flagged disabled: the flag is absent, or false (null and 0 count
\* as false, the test being the flag's truth value)
C15_NotDisabled(c) ==
    \/ "disabled" \notin DOMAIN c.d
    \/ c.d.disabled \in {JBool(FALSE), JNum(0), JNull}

\* C15: when the response's data (or the response itself) is a list of company
\* entries, list_branches returns those entries in their original order, with
\* active_only = True exactly the entries whose disabled flag is absent or false and
\* with active_only = False every entry: the k-th kept entry of the response is the
\* k-th entry of the output, unchanged, and the output has no other entry.
C15_BranchesFiltered ==
    (/\ C15_BranchesReturned
     /\ C15_Entries.t = "list"
     /\ \A i \in 1..Len(C15_Entries.l) : C15_Entries.l[i].t = "dict")
    => LET entries == C15_Entries.l
           kept == { i \in 1..Len(entries) :
                       args.active_only => C15_NotDisabled(entries[i]) }
           out == IF C15_Wrapped THEN result.value.d.data ELSE result.value
       IN /\ result.kind = "return"
          /\ out.t = "list"
          /\ Len(out.l) = Cardinality(kept)
          /\ \A i \in kept : out.l[Cardinality({ j \in kept : j <= i })] = entries[i]

\* active_only = True on data [3 (disabled), 2 (disabled false)]: only 2 is returned
C15_Witness ==
    /\ C15_BranchesReturned
    /\ args.active_only
    /\ C15_Wrapped
    /\ C15_Entries = JList(<<JDict([id |-> JNum(3), disabled |-> JBool(TRUE)]),
                             JDict([id |-> JNum(2), disabled |-> JBool(FALSE)])>>)
    /\ result.kind = "return"
    /\ result.value.d.data = JList(<<JDict([id |-> JNum(2), disabled |-> JBool(FALSE)])>>)

-----------------------------------------------------------------------------
(* C14 *)

\* the list a response carries: its data, or itself when it is a list, else none
C14_ListOf(response) ==
    IF response.t = "dict" /\ "data" \in DOMAIN response.d THEN response.d.data
    ELSE IF response.t = "list" THEN response
    ELSE JList(<<>>)

\* an id a dict can take as a key: not a list, not a mapping
C14_Id(item, field) == field \in DOMAIN item.d => item.d[field].t \notin {"list", "dict"}

\* build_complete_service_catalog has run to its end on a category list of mappings
\* and a flat service list of mappings that all have an id, the ids and category_ids
\* being numbers, strings, booleans or null
C14_Built ==
    /\ op = "build_complete_service_catalog"
    /\ pc = "done"
    /\ locals.phase = "services"
    /\ locals.response # JNull
    /\ C14_ListOf(locals.categories_response).t = "list"
    /\ C14_ListOf(locals.response).t = "list"
    /\ \A i \in 1..Len(C14_ListOf(locals.categories_response).l) :
          /\ C14_ListOf(locals.categories_response).l[i].t = "dict"
          /\ C14_Id(C14_ListOf(locals.categories_response).l[i], "id")
    /\ \A j \in 1..Len(C14_ListOf(locals.response).l) :
          /\ C14_ListOf(locals.response).l[j].t = "dict"
          /\ "id" \in DOMAIN C14_ListOf(locals.response).l[j].d
          /\ C14_Id(C14_ListOf(locals.response).l[j], "category_id")

\* the service carries a category_id (0 counts as none, like null) and it equals the
\* id of the category (== of the two values: true equals 1)
C14_BelongsTo(service, category) ==
    /\ "category_id" \in DOMAIN service.d
    /\ Truthy(service.d.category_id)
    /\ "id" \in DOMAIN category.d
    /\ PyEq(service.d.category_id, category.d.id)

\* C14: build_complete_service_catalog outputs one entry per category of the category
\* list, in list order, whose services are exactly the services of the flat list whose
\* category_id is that category's id, in flat-list order (none: an empty list); a
\* service without category_id, or whose category_id is the id of no category, is in
\* no category of the output. For categories {1, 2} and services {10->1, 11->1,
\* 12->99}: category 1 has services 10 and 11, category 2 has none, 12 is absent.
C14_CatalogGrouping ==
    C14_Built =>
       LET C == C14_ListOf(locals.categories_response).l
           S == C14_ListOf(locals.response).l
           members(i) == { j \in 1..Len(S) : C14_BelongsTo(S[j], C[i]) }
           out == result.value.d.categories.l
       IN /\ result.kind = "return"
          /\ Len(out) = Len(C)
          /\ \A i \in 1..Len(C) :
                /\ out[i].d.category_id = (IF "id" \in DOMAIN C[i].d THEN C[i].d.id ELSE JNull)
                /\ Len(out[i].d.services.l) = Cardinality(members(i))
                /\ \A j \in members(i) :
                      LET o == out[i].d.services.l[Cardinality({ k \in members(i) : k <= j })]
                      IN /\ o.d.service_id = S[j].d.id
                         /\ o.d.title = (IF "title" \in DOMAIN S[j].d THEN S[j].d.title
                                         ELSE JStr(""))
          /\ \A j \in 1..Len(S) :
                (\A i \in 1..Len(C) : ~C14_BelongsTo(S[j], C[i])) =>
                   \A i \in 1..Len(out) : \A k \in 1..Len(out[i].d.services.l) :
                      out[i].d.services.l[k].d.service_id # S[j].d.id
          /\ (C = ExampleCategories /\ S = ExampleServices) =>
                /\ Len(out[1].d.services.l) = 2
                /\ out[1].d.services.l[1].d.service_id = JNum(10)
                /\ out[1].d.services.l[2].d.service_id = JNum(11)
                /\ out[2].d.services = JList(<<>>)

\* the catalog of the example: two categories, services 10 and 11 under the first
C14_Witness ==
    /\ C14_Built
    /\ C14_ListOf(locals.categories_response).l = ExampleCategories
    /\ C14_ListOf(locals.response).l = ExampleServices
    /\ result.kind = "return"
    /\ Len(result.value.d.categories.l) = 2
    /\ Len(result.value.d.categories.l[1].d.services.l) = 2
    /\ result.value.d.categories.l[2].d.services = JList(<<>>)
    /\ result.value.d.total_services = JNum(3)

-----------------------------------------------------------------------------
(* C16 *)

\* a list_branches call has ended, after an earlier list_branches call on the same
\* instance with the same arguments that the platform answered in the same way
C16_SecondCall ==
    /\ op = "list_branches"
    /\ pc = "done"
    /\ history # <<>>
    /\ history[1].op = "list_branches"
    /\ history[1].args = args
    /\ history[1].answer = resp

\* the list of branches in a value: the value when it is a list, its data when it is a
\* mapping with a list under data, no list otherwise
C16_Branches(v) ==
    IF v.t = "list" THEN v.l
    ELSE IF v.t = "dict" /\ "data" \in DOMAIN v.d /\ v.d.data.t = "list" THEN v.d.data.l
    ELSE <<>>

\* how often the entry occurs in the list
C16_Count(list, entry) == Cardinality({ i \in 1..Len(list) : list[i] = entry })

-----------------------------------------------------------------------------
(* C17 *)

\* list_services or list_services_by_staff has run to its end on a response that
\* _request returned
C17_ServicesReturned ==
    /\ op \in {"list_services", "list_services_by_staff"}
    /\ pc = "done"
    /\ resp.kind = "response"
    /\ 200 <= resp.status /\ resp.status <= 299
    /\ resp.body.content # "invalid"

\* the response has data.services
C17_HasServices(r) ==
    /\ r.t = "dict"
    /\ "data" \in DOMAIN r.d
    /\ r.d.data.t = "dict"
    /\ "services" \in DOMAIN r.d.data.d

\* the response has no data.services: it is no mapping, has no data, or its data is a
\* mapping or a list without services
C17_NoServices(r) ==
    \/ r.t # "dict"
    \/ "data" \notin DOMAIN r.d
    \/ r.d.data.t = "dict" /\ "services" \notin DOMAIN r.d.data.d
    \/ r.d.data.t = "list" /\ \A i \in 1..Len(r.d.data.l) : r.d.data.l[i] # JStr("services")

\* C17: when the response has data.services, list_services and list_services_by_staff
\* return a mapping whose data is exactly that services list and whose success and
\* meta are those of the response (true and [] when it has none); list_services
\* returns no other key, list_services_by_staff returns one more, categories, holding
\* the response's data.categories ([] when it has none). When data.services is absent
\* the response is returned unmodified.
C17_ServicesHoisted ==
    C17_ServicesReturned =>
       LET r == locals.response IN
       /\ C17_HasServices(r) =>
             /\ result.kind = "return"
             /\ result.value.t = "dict"
             /\ result.value.d.data = r.d.data.d.services
             /\ result.value.d.success
                   = (IF "success" \in DOMAIN r.d THEN r.d.success ELSE JBool(TRUE))
             /\ result.value.d.meta = (IF "meta" \in DOMAIN r.d THEN r.d.meta ELSE JList(<<>>))
             /\ op = "list_services" => DOMAIN result.value.d = {"success", "data", "meta"}
             /\ op = "list_services_by_staff" =>
                   /\ DOMAIN result.value.d = {"success", "data", "categories", "meta"}
                   /\ result.value.d.categories
                         = (IF "categories" \in DOMAIN r.d.data.d THEN r.d.data.d.categories
                            ELSE JList(<<>>))
       /\ C17_NoServices(r) => result = Returned(r)

\* list_services_by_staff on data {services: [1, 2], categories: [9]}: the services
\* are hoisted and the categories kept beside them
C17_Witness ==
    /\ C17_ServicesReturned
    /\ op = "list_services_by_staff"
    /\ C17_HasServices(locals.response)
    /\ locals.response.d.data.d.services
          = JList(<<JDict([id |-> JNum(1)]), JDict([id |-> JNum(2)])>>)
    /\ result.kind = "return"
    /\ result.value.d.data = locals.response.d.data.d.services
    /\ result.value.d.categories = JList(<<JDict([id |-> JNum(9)])>>)

\* list_services on a response whose data has no services: returned as it is
C17_WitnessAbsent ==
    /\ C17_ServicesReturned
    /\ op = "list_services"
    /\ locals.response.t = "dict"
    /\ "data" \in DOMAIN locals.response.d
    /\ locals.response.d.data = JDict([categories |-> JList(<<JDict([id |-> JNum(9)])>>)])
    /\ result = Returned(locals.response)

-----------------------------------------------------------------------------
(* C18 *)

\* the operations that reshape the response
NormalizingOps == {"list_branches", "list_services", "list_services_by_staff"}

\* C18: whatever a 2xx response holds, what a normalizing operation returns is a bare
\* list or a mapping that has the keys success, data and meta.
C18_ListOrStandardMapping ==
    (op \in NormalizingOps /\ pc = "done" /\ result.kind = "return") =>
       \/ result.value.t = "list"
       \/ /\ result.value.t = "dict"
          /\ {"success", "data", "meta"} \subseteq DOMAIN result.value.d

-----------------------------------------------------------------------------
(* C19 *)

\* C19: once a network call has been made and answered 2xx with a body that decodes,
\* whatever its JSON shape, the operation returns a value or raises YClientsAPIError:
\* no other exception kind reaches the caller.
C19_SingleErrorKind ==
    (/\ pc = "done"
     /\ trace # <<>>
     /\ resp.kind = "response"
     /\ 200 <= resp.status /\ resp.status <= 299
     /\ resp.body.content # "invalid")
    => result.kind \in {"return", "YClientsAPIError"}

-----------------------------------------------------------------------------
(* C20 *)

\* the services or the staff function, each of which constructs a YClientsAPI
\* instance, has returned
C20_Returned ==
    /\ sync.at = "returned"
    /\ sync.fn \in {"fetch_and_save_services_data_for_salon",
                    "fetch_and_save_staff_data_for_salon"}

\* C20: when fetch_and_save_services_data_for_salon or
\* fetch_and_save_staff_data_for_salon has returned, True or False, the session of
\* the YClientsAPI instance it constructed has been closed.
C20_ClosedOnReturn ==
    C20_Returned => session = "closed"

-----------------------------------------------------------------------------
(* C25 *)

\* the search answered with a list of candidates, each a mapping
C25_Candidates ==
    /\ IsDict(locals.response)
    /\ HasKey(locals.response, "data")
    /\ IsList(locals.response.d.data)
    /\ \A i \in 1..Len(locals.response.d.data.l) : IsDict(locals.response.d.data.l[i])

\* C25: when the input phone has a digit and the search succeeded with a list of
\* candidates, _find_client_by_phone returns (a client or None) and does not raise,
\* whatever the phone fields of the candidates hold.
C25_FindNeverRaises ==
    (/\ op = "_find_client_by_phone"
     /\ pc = "done"
     /\ "phase" \in DOMAIN locals
     /\ locals.phase = "matched"
     /\ C25_Candidates)
    => result.kind = "return"

-----------------------------------------------------------------------------
(* C26 *)

\* the i-th _request invocation of the operation is the client search
C26_IsSearch(i) ==
    /\ calls[i].method = "POST"
    /\ calls[i].url = BASE_URL \o SearchPath(api)

\* the i-th _request invocation is the visit history of the resolved client, staff
\* details included
C26_IsVisitsOfClient(i) ==
    /\ calls[i].method = "POST"
    /\ calls[i].url = BASE_URL \o VisitsPath(api)
    /\ "exact_match" \in DOMAIN locals
    /\ Truthy(locals.exact_match)
    /\ calls[i].json.d.client_id = Get(locals.exact_match, "id", JNull)
    /\ HasKey(calls[i].json, "include_staff")
    /\ calls[i].json.d.include_staff = JNum(1)

\* the HTTP attempts of the operation: none to the search once the visit history was asked
C26_SearchAttemptsFirst ==
    \A i, j \in 1..Len(trace) :
       (/\ i < j
        /\ trace[i].e = "request"
        /\ trace[j].e = "request"
        /\ trace[i].url = BASE_URL \o VisitsPath(api))
       => trace[j].url = BASE_URL \o VisitsPath(api)

\* C26: get_client_last_visit_info calls _request for the client search first and for
\* the visit history second and last; the visit history is asked only with a resolved
\* client, with that client's id and include_staff; with no client resolved it is not
\* asked at all.
C26_SearchThenVisits ==
    op = "get_client_last_visit_info" =>
       /\ Len(calls) <= 2
       /\ Len(calls) >= 1 => C26_IsSearch(1)
       /\ Len(calls) = 2 => C26_IsVisitsOfClient(2)
       /\ C26_SearchAttemptsFirst
       /\ (pc = "done" /\ "exact_match" \in DOMAIN locals /\ ~Truthy(locals.exact_match))
             => Len(calls) = 1

\* the visit history was asked for the client the search resolved, and answered
C26_Witness ==
    /\ op = "get_client_last_visit_info"
    /\ pc = "done"
    /\ Len(calls) = 2
    /\ C26_IsVisitsOfClient(2)
    /\ result.kind = "return"
    /\ Truthy(result.value)

\* the search answered and resolved no client: the operation is over after one request
C26_WitnessNoClient ==
    /\ op = "get_client_last_visit_info"
    /\ pc = "done"
    /\ "exact_match" \in DOMAIN locals
    /\ ~Truthy(locals.exact_match)
    /\ result = Returned(JNull)
    /\ Len(calls) = 1

-----------------------------------------------------------------------------
(* C24 *)

\* the step sends a request of a call that is not elevated
C24_PlainRequestSent ==
    /\ pc = "request"
    /\ ~req.use_user_token
    /\ Len(trace') = Len(trace) + 1

\* C24: no step of any call, successful or failed, changes the instance: timeout,
\* max_retries, backoff_factor, credentials and default headers stay what __init__
\* made them, and every request of a non-elevated call carries 'Bearer {partner_token}'
\* alone, also after an elevated call.
C24_InstanceNeverModified ==
    [][/\ api' = api
       /\ api'.default_headers = DefaultHeaders(api'.partner_token)
       /\ C24_PlainRequestSent =>
             trace'[Len(trace')].auth = "Bearer " \o api.partner_token]_vars

\* a non-elevated call has sent its request with the partner token alone, on an instance
\* that has a user token and whose call before was elevated
C24_Witness ==
    /\ Truthy(api.user_token)
    /\ history # <<>>
    /\ history[1].elevated
    /\ op = "list_staff"
    /\ pc = "done"
    /\ trace # <<>>
    /\ trace[1].auth = "Bearer " \o api.partner_token

-----------------------------------------------------------------------------
(* C30 *)

\* the sleeps of the call in progress
C30_Sleeps == SelectSeq(trace, LAMBDA e : e.e = "sleep")

\* C30: every call starts with no retry used, whatever the calls before it did: its
\* first sleep is backoff_factor, it sleeps at most max_retries times, and when it ends
\* on a 429 it has used all max_retries retries itself.
C30_RetryBudgetPerCall ==
    op # "none" =>
       /\ (pc = "request" /\ trace = <<>>) => req.retries = 0
       /\ C30_Sleeps # <<>> => C30_Sleeps[1].d = api.backoff_factor
       /\ Len(C30_Sleeps) <= api.max_retries
       /\ (pc = "done" /\ resp.kind = "response" /\ resp.status = 429)
             => Len(C30_Sleeps) = api.max_retries

\* the call before exhausted its retries, and this call has retried max_retries times
\* again
C30_Witness ==
    /\ api.max_retries = MaxRetries
    /\ history # <<>>
    /\ history[1].retries = api.max_retries
    /\ history[1].outcome = "YClientsAPIError"
    /\ pc = "done"
    /\ resp.kind = "response"
    /\ resp.status = 429
    /\ Len(C30_Sleeps) = api.max_retries
    /\ C30_Sleeps[1].d = api.backoff_factor

-----------------------------------------------------------------------------
(* C22 *)

\* the Authorization an instance used alone sends: its own partner token, and its own
\* user token on an elevated call
C22_OwnAuthorization(a, elevated) ==
    IF elevated /\ Truthy(a.user_token)
    THEN "Bearer " \o a.partner_token \o ", User " \o a.user_token.s
    ELSE "Bearer " \o a.partner_token

C22_Requests(c) == SelectSeq(c.trace, LAMBDA e : e.e = "request")
C22_Sleeps(c) == SelectSeq(c.trace, LAMBDA e : e.e = "sleep")

\* the call of caller c has gone as it goes on an instance used alone: the instance
\* is as constructed; every attempt goes to the call's URL with the instance's own
\* credentials and timeout; the i-th sleep is backoff_factor * 2^(i-1) of the instance;
\* no more than its max_retries sleeps; and the call ends with what its last answer
\* makes of it, on a 429 only with all retries used
C22_AsAlone(c) ==
    /\ c.api = NewAPI(c.api.company_id, c.api.partner_token, c.api.user_token,
                      c.api.timeout, c.api.max_retries, c.api.backoff_factor)
    /\ c.op # "none" =>
         /\ Len(c.calls) = 1
         /\ \A i \in 1..Len(C22_Requests(c)) :
              /\ C22_Requests(c)[i].url = c.calls[1].url
              /\ C22_Requests(c)[i].auth =
                    C22_OwnAuthorization(c.api, c.calls[1].use_user_token)
              /\ C22_Requests(c)[i].timeout = c.api.timeout
         /\ \A i \in 1..Len(C22_Sleeps(c)) :
              C22_Sleeps(c)[i].d = c.api.backoff_factor * (2 ^ (i - 1))
         /\ Len(C22_Sleeps(c)) <= c.api.max_retries
         /\ Len(C22_Requests(c)) \in {Len(C22_Sleeps(c)), Len(C22_Sleeps(c)) + 1}
         /\ c.pc = "done" =>
              /\ Len(C22_Requests(c)) = Len(C22_Sleeps(c)) + 1
              /\ c.result = RequestOutcome(c.resp)
              /\ (c.resp.kind = "response" /\ c.resp.status = 429)
                    => Len(C22_Sleeps(c)) = c.api.max_retries

\* C22: with the calls on two instances interleaved in every way, each instance issues
\* the requests and each call yields the result they would with the instance used
\* alone.
C22_InstancesIndependent ==
    peer # NoPeer => (C22_AsAlone(Running) /\ C22_AsAlone(peer))

\* a call on one instance has ended after a retry while a call on the other instance,
\* with other credentials, is between two of its attempts
C22_Witness ==
    /\ peer # NoPeer
    /\ pc = "done"
    /\ Len(C22_Sleeps(Running)) >= 1
    /\ peer.pc = "sleep"
    /\ peer.api.partner_token # api.partner_token
    /\ peer.calls[1].use_user_token
    /\ ~calls[1].use_user_token

-----------------------------------------------------------------------------
(* C28: in fetch_and_save_services_data_for_salon, when the body the platform
   answered the book_services request with carries categories under
   data.categories, the categories stored for the salon by the write are those
   categories. (Does not hold: list_services replaces data by data.services, so the
   function never sees data.categories and stores the separately fetched response,
   or no categories at all when that fetch failed.) *)
C28_RemoteCategories ==
    IF IsDict(sync.answered) /\ HasKey(sync.answered, "data")
       /\ IsDict(sync.answered.d.data) /\ HasKey(sync.answered.d.data, "categories")
    THEN sync.answered.d.data.d.categories
    ELSE JNull

C28_Written ==
    /\ sync.at = "summary"
    /\ sync.fn = "fetch_and_save_services_data_for_salon"

C28_StoresCategoriesOfServicesResponse ==
    (C28_Written /\ Truthy(C28_RemoteCategories))
        => LET doc == Documents(salons, JStr(Str(sync.salon_id)))[1] IN
           /\ "categories" \in DOMAIN doc
           /\ doc.categories = C28_RemoteCategories

-----------------------------------------------------------------------------
(* C23: every write of a sync function to the salons collection for salon s is an
   upsert on the document whose _id is str(s): whenever the collection changes, the
   documents of the other salons are as before, there is exactly one document for
   s, the fields the function wrote hold the values it wrote, and every other field
   of salon_info, services, staff and categories is as it was. So the collection
   never holds two documents for a salon, and each field holds its last successful
   write *)
C23_Fields == {"salon_info", "services", "staff", "categories"}

C23_Others(collection, id) == SelectSeq(collection, LAMBDA doc : doc["_id"] # JStr(id))

\* the fields the function in progress writes, from its frame
C23_WrittenBy(f) ==
    CASE f.fn = "fetch_and_save_salon_info" -> [salon_info |-> f.salon_info]
      [] f.fn = "fetch_and_save_staff_data_for_salon" -> [staff |-> f.staff_response]
      [] OTHER ->
            LET services == [services |->
                               JDict([book_services |-> f.services_response,
                                      company_services |-> f.company_services_response])]
                categories == CategoriesData(f.services_response, f.categories_response) IN
            IF Truthy(categories) THEN [categories |-> categories] @@ services ELSE services

C23_Upsert ==
    LET id == Str(sync.salon_id)
        before == Documents(salons, JStr(id))
        after == Documents(salons', JStr(id))
        written == C23_WrittenBy(sync) IN
    /\ sync.at = "update_one"
    /\ C23_Others(salons', id) = C23_Others(salons, id)
    /\ Len(after) = 1
    /\ \A k \in DOMAIN written : k \in DOMAIN after[1] /\ after[1][k] = written[k]
    /\ \A k \in C23_Fields \ DOMAIN written :
          IF before # <<>> /\ k \in DOMAIN before[1]
          THEN k \in DOMAIN after[1] /\ after[1][k] = before[1][k]
          ELSE k \notin DOMAIN after[1]

C23_LastWriteWins == [][salons' # salons => C23_Upsert]_vars

\* two salons stored, one with all four fields after a write that replaced its
\* services, the other with only some of them, the function last called having failed
C23_Witness ==
    /\ Len(salons) = 2
    /\ sync.at = "returned"
    /\ ~Truthy(sync.value)
    /\ \E i, j \in 1..2 :
         /\ C23_Fields \subseteq DOMAIN salons[i]
         /\ salons[i].services.d.company_services = JNull
         /\ "staff" \in DOMAIN salons[j]
         /\ "services" \notin DOMAIN salons[j]

-----------------------------------------------------------------------------
(* C29: in run_full_sync, for every salon whose services unit succeeded in this
   run, phase 4 generates a simplified view from the document it reads, also when
   the services unit stored company_services as null; the view then has an empty
   service_name_to_id. (Does not hold: with company_services null the test
   'data' in salon_doc['services']['company_services'] raises TypeError,
   generate_simplified_data_for_salon returns {}, and nothing is saved.) *)
C29_ServicesSucceeded(salon_id) ==
    \E n \in 1..Len(run.attempted) :
        run.attempted[n] = [phase |-> 2, salon_id |-> salon_id, success |-> TRUE]

\* the staff names stored for the salon can be dict keys (a name that is a list makes
\* the view fail for a reason of its own)
C29_StaffNamed(salon_id) ==
    LET doc == Documents(salons, JStr(Str(salon_id)))[1]
        staff == FieldData(doc, "staff") IN
    (staff.kind = "data" /\ IsList(staff.data)) =>
       \A i \in 1..Len(staff.data.l) :
          IsDict(staff.data.l[i]) => ~Unhashable(Get(staff.data.l[i], "name", JStr("")))

C29_Generated ==
    /\ run.at = "unit"
    /\ run.phase = 4
    /\ sync.at = "returned"
    /\ sync.found
    /\ C29_StaffNamed(sync.salon_id)

C29_ViewAfterServices ==
    (C29_Generated /\ C29_ServicesSucceeded(sync.salon_id))
        => /\ Truthy(sync.value)
           /\ HasKey(sync.value, "service_name_to_id")

-----------------------------------------------------------------------------
(* C27: after a full-sync run every document of the salons collection carries the
   created_at and salon_id fields that the salon-info phase sets on insert, also a
   document first created by the services or staff phase. (Does not hold: the
   upserts of the services and staff functions have no '$setOnInsert', and the
   salon-info function sets the two fields only when its own write inserts.) *)
C27_InsertFieldsEverywhere ==
    run.at = "returned"
        => \A i \in 1..Len(salons) : {"created_at", "salon_id"} \subseteq DOMAIN salons[i]

-----------------------------------------------------------------------------
(* C21: when run_full_sync has returned, the units it attempted are the four
   phases in order, each over all configured salons in order, every unit exactly
   once whatever the outcome of the others; with at least one salon configured it
   returns True if and only if every unit succeeded, and with none configured it
   attempts nothing and returns False *)
C21_Units ==
    LET ids == syncer.salon_ids IN
    [n \in 1..(4 * Len(ids)) |-> [phase |-> ((n - 1) \div Len(ids)) + 1,
                                  salon_id |-> ids[((n - 1) % Len(ids)) + 1]]]

C21_Attempted ==
    [n \in 1..Len(run.attempted) |-> [phase |-> run.attempted[n].phase,
                                      salon_id |-> run.attempted[n].salon_id]]

C21_AllSucceeded == \A n \in 1..Len(run.attempted) : run.attempted[n].success

C21_EveryUnitOnce ==
    run.at = "returned"
        => /\ C21_Attempted = C21_Units
           /\ IF syncer.salon_ids = <<>>
              THEN ~run.overall_success
              ELSE run.overall_success <=> C21_AllSucceeded

\* a run over two salons in which the first unit failed and the last one succeeded
C21_Witness ==
    /\ run.at = "returned"
    /\ Len(syncer.salon_ids) = 2
    /\ Len(run.attempted) = 8
    /\ ~run.attempted[1].success
    /\ run.attempted[8].success
    /\ ~run.overall_success

\* C21 as stated: True exactly when every attempted unit succeeded, for
\* every configuration. (Does not hold: with no salon configured nothing is
\* attempted and the run returns False.)
C21_TrueIffAllSucceeded ==
    run.at = "returned"
        => /\ C21_Attempted = C21_Units
           /\ run.overall_success <=> C21_AllSucceeded

=============================================================================
